---- MODULE Spec2Model ----
(***************************************************************************)
(* Erase-job orchestrator of safe-shred-swift: the EraseService job        *)
(* registry (backend/services/eraseService.js), the /api/erase routes      *)
(* (backend/routes/erase.js) and the audit entries they append.            *)
(*                                                                         *)
(* JavaScript strings are modelled as sequences of one-character strings,  *)
(* so that toUpperCase, the drive-letter pattern and the comparison of the *)
(* confirmation phrase are computed character by character.                *)
(***************************************************************************)
EXTENDS Integers, Sequences, FiniteSets, TLC

\* ------------------------------------------------------------------ bounds
\* the broadcast calls of a run of the WebSocket server alone
MaxPublished == 2
\* the messages a connection carries before pings and unparsable messages
\* are no longer answered
MaxInbox == 2
\* the jobs created in a run of job creation alone
MaxCreated == 3
\* the erasures the local backend accepts in a run
MaxLocalJobs == 2
\* the appends before an export of a short log
MaxExportLen == 2
\* the appends before an export of a log longer than one page
ExportPrefill == 51
\* the lines appended to the log buffer of a job in a run of the buffer alone
MaxLogLines == 1510
\* the appends before the pages of a query are read
MaxQueryLen == 3
\* number of times the clock advances in a run of the rate limiter alone
MaxTicks == 3
\* number of addLogEntry calls in a run of the audit log alone
MaxAudit == 2
\* number of fields altered behind the logger's back in such a run
MaxTampers == 2
\* number of jobs already in the history when a run of the history alone starts
HistoryPrefill == 99
\* number of jobs registered in a run of the history alone
MaxHistoryJobs == 3
\* number of jobs the registry admits in one run
MaxJobs == 1
\* number of stdout/stderr chunks the Executors emit in one run
MaxOutput == 2
\* number of accepted cancel requests in one run
MaxCancels == 2

JobIds == 1..MaxJobs
\* a job id no create call ever returned
UnknownJobId == MaxJobs + 1

\* ---------------------------------------------------------------- strings
UpperLetters ==
  {"A","B","C","D","E","F","G","H","I","J","K","L","M",
   "N","O","P","Q","R","S","T","U","V","W","X","Y","Z"}

LowerLetters ==
  <<"a","b","c","d","e","f","g","h","i","j","k","l","m",
    "n","o","p","q","r","s","t","u","v","w","x","y","z">>

UpperOf ==
  <<"A","B","C","D","E","F","G","H","I","J","K","L","M",
    "N","O","P","Q","R","S","T","U","V","W","X","Y","Z">>

\* String.prototype.toUpperCase on one character
toUpperChar(c) ==
  IF \E i \in 1..Len(LowerLetters) : LowerLetters[i] = c
    THEN UpperOf[CHOOSE i \in 1..Len(LowerLetters) : LowerLetters[i] = c]
    ELSE c

toUpperCase(s) == [i \in 1..Len(s) |-> toUpperChar(s[i])]

\* the template literal `${x} YES`
YesSuffix == <<" ", "Y", "E", "S">>

\* /^[A-Z]:$/.test(s)
DriveLetterPattern(s) == Len(s) = 2 /\ s[1] \in UpperLetters /\ s[2] = ":"

\* ------------------------------------------------------- safety validation
systemDrives_C_only == {<<"C", ":">>}

\* this.systemDrives
systemDrives == {<<"C", ":">>, <<"D", ":">>}

confirmationMatches_ignoreCase(confirmation, driveLetter) ==
  toUpperCase(confirmation) = toUpperCase(driveLetter) \o YesSuffix

\* request.confirmation !== `${request.driveLetter.toUpperCase()} YES`
confirmationMatches(confirmation, driveLetter) ==
  confirmation = toUpperCase(driveLetter) \o YesSuffix

validateEraseRequest_noFormat(request) ==
  IF request.deviceId = <<>> \/ request.driveLetter = <<>> \/ request.confirmation = <<>>
    THEN [isValid |-> FALSE, error |-> "missing_fields"]
  ELSE IF toUpperCase(request.driveLetter) \in systemDrives
    THEN [isValid |-> FALSE, error |-> "system_drive"]
  ELSE IF ~confirmationMatches(request.confirmation, request.driveLetter)
    THEN [isValid |-> FALSE, error |-> "confirmation"]
  ELSE [isValid |-> TRUE, error |-> "none"]

\* EraseService.validateEraseRequest
validateEraseRequest(request) ==
  IF request.deviceId = <<>> \/ request.driveLetter = <<>> \/ request.confirmation = <<>>
    THEN [isValid |-> FALSE, error |-> "missing_fields"]
  ELSE IF ~DriveLetterPattern(toUpperCase(request.driveLetter))
    THEN [isValid |-> FALSE, error |-> "drive_format"]
  ELSE IF toUpperCase(request.driveLetter) \in systemDrives
    THEN [isValid |-> FALSE, error |-> "system_drive"]
  ELSE IF ~confirmationMatches(request.confirmation, request.driveLetter)
    THEN [isValid |-> FALSE, error |-> "confirmation"]
  ELSE [isValid |-> TRUE, error |-> "none"]

\* EraseService.performSafetyCheck; statOk is the outcome of fs.stat on the drive
performSafetyCheck(request, statOk) ==
  LET isSystemDrive == toUpperCase(request.driveLetter) \in systemDrives
      confirmationValid == confirmationMatches(request.confirmation, request.driveLetter)
      checks == [drive_exists |-> statOk,
                 system_drive_protection |-> ~isSystemDrive,
                 confirmation_format |-> confirmationValid]
  IN [allPassed |-> checks.drive_exists /\ checks.system_drive_protection
                      /\ checks.confirmation_format,
      checks |-> checks]

\* validateEraseConfirmation of the safety middleware
validateEraseConfirmation(confirmation, devicePath) ==
  confirmation = toUpperCase(devicePath) \o YesSuffix

\* ------------------------------------------------------------------- state
VARIABLES
  activeJobs,    \* this.activeJobs: job id -> job object
  jobHistory,    \* this.jobHistory: job objects, newest first
  auditLogs,     \* auditLogger.auditLogs: the entries pushed so far, oldest first
  execs,         \* per job id: where its asynchronous start/erase chain stands
  spawns,        \* the Executor launches made so far (spawn / first exec call)
  signals,       \* the kill signals sent to Executor processes
  outputs,       \* stdout/stderr chunks delivered so far
  cancels,       \* cancel requests accepted so far
  lastResponse,  \* the HTTP response the step just taken sent, if it sent one
  checked,       \* the last confirmation check evaluated on its own
  moved,         \* the ids of the jobs moved to the history, in the order moved
  created,       \* the number of jobs registered on their own in this run
  auditFile,     \* audit.json: whether it exists and the logs it holds
  initialized,   \* auditLogger.initialized
  calls,         \* the addLogEntry calls made on the logger alone, oldest first
  originals,     \* the entries as addLogEntry or the load first stored them
  tampers,       \* the number of fields altered behind the logger's back
  report,        \* what the audit operation just run returned, if it returned
  attempts,      \* the rate limiter's map: key -> timestamps of recent attempts
  now,           \* Date.now(), in milliseconds since the run began
  admitted,      \* per key, the time of every attempt the rate limiter let pass
  ticks,         \* the number of times the clock has advanced
  clients,       \* per WebSocket client: its readyState and ws.subscriptions
  inbox,         \* per WebSocket client: the messages sent on its connection
  published,     \* the number of broadcast calls made so far
  platform,      \* process.platform of the local backend
  localJobs,     \* the local backend's erasures: job id -> device and outcome
  logFiles       \* the local backend's logs directory: job id -> status logged

\* the variables the audit logger shares with nothing else
auditOnly == <<auditFile, initialized, calls, originals, tampers, report>>

\* the variables the rate limiter shares with nothing else
rateOnly == <<attempts, now, admitted, ticks>>

\* the variables the erase routes and the Executor callbacks never touch
\* the variables the WebSocket server shares with nothing else
pubOnly == <<clients, inbox, published>>

\* the variables of the Electron local backend
localOnly == <<platform, localJobs, logFiles>>

aux == <<moved, created, auditOnly, rateOnly, pubOnly, localOnly>>

\* (caller, operation) pairs: `${req.ip}-${req.route.path}`
RateKeys == {<<"10.0.0.1", "/start">>, <<"10.0.0.2", "/start">>}

\* the rate limiter before its first call
InitRate ==
  /\ attempts = [key \in RateKeys |-> <<>>]
  /\ now = 0
  /\ admitted = [key \in RateKeys |-> <<>>]
  /\ ticks = 0

\* the WebSocket clients that can connect
ClientIds == {"a", "b"}

\* the WebSocket server before its first connection
InitPub ==
  /\ clients = [c \in ClientIds |-> [readyState |-> "NONE", subscriptions |-> {}]]
  /\ inbox = [c \in ClientIds |-> <<>>]
  /\ published = 0

\* the local backend before its first request
InitLocal ==
  /\ platform = "win32"
  /\ localJobs = <<>>
  /\ logFiles = <<>>

vars == <<activeJobs, jobHistory, auditLogs, execs, spawns, signals,
          outputs, cancels, lastResponse, checked, aux>>

\* the texts the requests of a run are drawn from
DriveE == <<"E", ":">>
Drive_e == <<"e", ":">>
DriveC == <<"C", ":">>
Drive_c == <<"c", ":">>
DriveD == <<"D", ":">>
Drive_d == <<"d", ":">>
DriveDigit == <<"1", ":">>

Phrase(t) == t \o YesSuffix

Dev == <<"d", "e", "v">>

Req(dev, dl, conf, ty) ==
  [deviceId |-> dev, driveLetter |-> dl, confirmation |-> conf, deviceType |-> ty]

\* the bodies POSTed to /api/erase/start in a run
Requests ==
  { Req(Dev, DriveE, Phrase(DriveE), "usb"),
    Req(Dev, DriveE, Phrase(DriveE), "android"),
    Req(Dev, Drive_e, Phrase(DriveE), ""),
    Req(Dev, DriveC, Phrase(DriveC), "usb"),
    Req(Dev, Drive_c, Phrase(DriveC), "usb"),
    Req(Dev, DriveD, Phrase(DriveD), "usb"),
    Req(Dev, Drive_d, Phrase(DriveD), "android"),
    Req(Dev, DriveE, Phrase(Drive_e), "usb"),
    Req(Dev, DriveE, <<"E", ":", " ", "Y", "e", "s">>, "usb"),
    Req(Dev, DriveDigit, Phrase(DriveDigit), "usb"),
    Req(Dev, DriveE, <<>>, "usb"),
    Req(<<>>, DriveE, Phrase(DriveE), "usb") }

NoResponse == [op |-> "none"]

\* ------------------------------------------------------------ job registry
TerminalStatuses == {"completed", "failed", "cancelled"}

\* Math.min(100, Math.max(0, progress))
Clamp(progress) ==
  IF progress < 0 THEN 0 ELSE IF progress > 100 THEN 100 ELSE progress

\* the log buffer's cap and the size it is trimmed to
LogCap == 1000
LogKeep == 500

\* logs.slice(-n)
SliceLast(logs, n) ==
  IF Len(logs) <= n THEN logs ELSE SubSeq(logs, Len(logs) - n + 1, Len(logs))

addJobLog_keepOldest(jobs, jobId, message) ==
  IF jobId \notin DOMAIN jobs THEN jobs
  ELSE LET pushed == Append(jobs[jobId].logs, message)
           kept == IF Len(pushed) > LogCap THEN SubSeq(pushed, 1, LogKeep) ELSE pushed
       IN [jobs EXCEPT ![jobId].logs = kept]

\* EraseService.addJobLog on the job map
addJobLog(jobs, jobId, message) ==
  IF jobId \notin DOMAIN jobs THEN jobs
  ELSE LET pushed == Append(jobs[jobId].logs, message)
           kept == IF Len(pushed) > LogCap THEN SliceLast(pushed, LogKeep) ELSE pushed
       IN [jobs EXCEPT ![jobId].logs = kept]

NoProgress == -1
NoMessage == "null"

\* EraseService.updateJobStatus on the job map
updateJobStatus(jobs, jobId, status, message, progress) ==
  IF jobId \notin DOMAIN jobs THEN jobs
  ELSE LET j1 == [jobs EXCEPT ![jobId].status = status, ![jobId].lastUpdate = jobs[jobId].lastUpdate + 1]
           j2 == IF message # NoMessage
                   THEN addJobLog([j1 EXCEPT ![jobId].statusMessage = message],
                                  jobId, message)
                   ELSE j1
       IN IF progress # NoProgress
            THEN [j2 EXCEPT ![jobId].progress = Clamp(progress)]
            ELSE j2

updateJobProgress_noGuard(jobs, jobId, progress) ==
  IF jobId \notin DOMAIN jobs THEN jobs
  ELSE [jobs EXCEPT ![jobId].progress = progress, ![jobId].lastUpdate = jobs[jobId].lastUpdate + 1]

\* EraseService.updateJobProgress on the job map
updateJobProgress(jobs, jobId, progress) ==
  IF jobId \notin DOMAIN jobs THEN jobs
  ELSE IF progress > jobs[jobId].progress
    THEN [jobs EXCEPT ![jobId].progress = progress, ![jobId].lastUpdate = jobs[jobId].lastUpdate + 1]
    ELSE jobs

\* the chunks a USB erase script writes to stdout, by the marker they contain
OutputLines == {"Erasing drive", "Wiping free space", "cipher.exe", "Erase complete", "other"}

\* EraseService.parseProgressFromOutput on the job map
parseProgressFromOutput(jobs, jobId, output) ==
  IF output = "Erasing drive" THEN updateJobProgress(jobs, jobId, 30)
  ELSE IF output = "Wiping free space" THEN updateJobProgress(jobs, jobId, 60)
  ELSE IF output = "cipher.exe" THEN updateJobProgress(jobs, jobId, 80)
  ELSE IF output = "Erase complete" THEN updateJobProgress(jobs, jobId, 95)
  ELSE jobs

\* ------------------------------------------------------------- audit trail
\* AuditLogger.logEraseStart: the entry pushed onto auditLogs
logEraseStart(job) ==
  [action |-> "erase_start", category |-> "data_destruction", jobId |-> job.id,
   result |-> "initiated", severity |-> "high"]

\* AuditLogger.logEraseComplete: the entry pushed onto auditLogs
logEraseComplete(jobId, result) ==
  [action |-> "erase_complete", category |-> "data_destruction", jobId |-> jobId,
   result |-> result, severity |-> IF result = "success" THEN "high" ELSE "error"]

\* AuditLogger.logError: the entry pushed onto auditLogs
logError(context) ==
  [action |-> "error", category |-> "system", jobId |-> UnknownJobId,
   result |-> "error", severity |-> "error"]

\* ---------------------------------------------------------------- Executor
\* the three ADB commands of eraseAndroidDevice
AdbCommandCount == 3

\* Math.round(((index + 1) / commands.length) * 80) + 20, index counted from 0
AdbProgress(index) ==
  LET num == (index + 1) * 80
      q == num \div AdbCommandCount
      r == num % AdbCommandCount
  IN (IF 2 * r >= AdbCommandCount THEN q + 1 ELSE q) + 20

NoExec == [phase |-> "none", index |-> 0, exitCode |-> 0]

\* ------------------------------------------------------------------- Init
Init ==
  /\ activeJobs = <<>>
  /\ jobHistory = <<>>
  /\ auditLogs = <<>>
  /\ execs = [j \in JobIds |-> NoExec]
  /\ spawns = {}
  /\ signals = {}
  /\ outputs = 0
  /\ cancels = 0
  /\ lastResponse = NoResponse
  /\ checked = NoResponse
  /\ moved = <<>>
  /\ created = 0
  /\ auditFile = [exists |-> FALSE, logs |-> <<>>]
  /\ initialized = TRUE
  /\ calls = <<>>
  /\ originals = <<>>
  /\ tampers = 0
  /\ report = NoResponse
  /\ InitRate
  /\ InitPub
  /\ InitLocal

\* EraseService.generateJobId: an id no earlier job of the run has
generateJobId == Cardinality({j \in JobIds : execs[j].phase # "none"}) + 1

NewJob_running(jobId, request) ==
  [id |-> jobId,
   deviceId |-> request.deviceId,
   driveLetter |-> request.driveLetter,
   confirmation |-> request.confirmation,
   deviceType |-> IF request.deviceType = "" THEN "usb" ELSE request.deviceType,
   status |-> "running",
   progress |-> 0,
   logs |-> <<>>,
   customer |-> "Unknown",
   statusMessage |-> "undefined",
   lastUpdate |-> 0,
   process |-> "undefined"]

\* the job object startEraseJob builds
NewJob(jobId, request) ==
  [id |-> jobId,
   deviceId |-> request.deviceId,
   driveLetter |-> request.driveLetter,
   confirmation |-> request.confirmation,
   deviceType |-> IF request.deviceType = "" THEN "usb" ELSE request.deviceType,
   status |-> "initializing",
   progress |-> 0,
   logs |-> <<>>,
   customer |-> "Unknown",
   statusMessage |-> "undefined",
   lastUpdate |-> 0,
   process |-> "undefined"]

\* the bodies res.json sends from POST /start
StartResponse(code, success, error) ==
  [op |-> "start", code |-> code, success |-> success, error |-> error]

SafetyResponse(safetyCheck) ==
  [op |-> "start", code |-> 200, success |-> FALSE, error |-> "Safety check failed",
   safetyCheck |-> safetyCheck]

\* POST /api/erase/start up to the first suspension of startEraseJob:
\* the route's field check, performSafetyCheck, validateEraseRequest, the job
\* placed in activeJobs and the erase_start entry pushed by logEraseStart
StartRoute(body, statOk) ==
  LET eraseRequest == [body EXCEPT !.driveLetter = toUpperCase(body.driveLetter),
                                   !.deviceType = IF body.deviceType = "" THEN "usb"
                                                  ELSE body.deviceType]
      safetyCheck == performSafetyCheck(eraseRequest, statOk)
      validation == validateEraseRequest(eraseRequest)
      jobId == generateJobId
      job == NewJob(jobId, eraseRequest)
  IN
  IF body.deviceId = <<>> \/ body.driveLetter = <<>> \/ body.confirmation = <<>>
    THEN /\ lastResponse' = StartResponse(400, FALSE, "missing_fields")
         /\ UNCHANGED <<activeJobs, jobHistory, auditLogs, execs, spawns, signals,
                        outputs, cancels, checked, aux>>
  ELSE IF ~safetyCheck.allPassed
    THEN /\ lastResponse' = SafetyResponse(safetyCheck)
         /\ UNCHANGED <<activeJobs, jobHistory, auditLogs, execs, spawns, signals,
                        outputs, cancels, checked, aux>>
  ELSE IF ~validation.isValid
    THEN /\ lastResponse' = StartResponse(200, FALSE, validation.error)
         /\ UNCHANGED <<activeJobs, jobHistory, auditLogs, execs, spawns, signals,
                        outputs, cancels, checked, aux>>
  ELSE /\ jobId \in JobIds
       /\ activeJobs' = [j \in DOMAIN activeJobs \cup {jobId} |->
                           IF j = jobId THEN job ELSE activeJobs[j]]
       /\ auditLogs' = Append(auditLogs, logEraseStart(job))
       /\ execs' = [execs EXCEPT ![jobId] = [NoExec EXCEPT !.phase = "auditStart"]]
       /\ UNCHANGED <<jobHistory, spawns, signals, outputs, cancels,
                      checked, aux>>
       /\ lastResponse' = NoResponse

\* executeEraseProcess and eraseUsbDrive up to the spawn of the erase script
LaunchUsb(jobs, jobId) ==
  LET j1 == updateJobStatus(jobs, jobId, "running", "Starting erase process...",
                            NoProgress)
      j2 == addJobLog(j1, jobId, "Executing: usb.bat")
  IN updateJobStatus(j2, jobId, "running", "Launching erase script...", 10)

\* executeEraseProcess and eraseAndroidDevice up to the first exec call
LaunchAndroid(jobs, jobId) ==
  LET j1 == updateJobStatus(jobs, jobId, "running", "Starting erase process...",
                            NoProgress)
      j2 == addJobLog(j1, jobId, "Starting Android device erase via ADB...")
      j3 == updateJobStatus(j2, jobId, "running", "Connecting to Android device...",
                            20)
  IN addJobLog(j3, jobId, "Executing: adb")

\* the 'error' handler of the erase process up to its await
UsbErrorHandler(jobs, jobId) ==
  updateJobStatus(jobs, jobId, "failed", "Process error", NoProgress)

\* the catch block of executeEraseProcess up to its await
ExecuteCatch(jobs, jobId) ==
  updateJobStatus(jobs, jobId, "failed", "Error", NoProgress)

\* startEraseJob resumes after `await auditLogger.logEraseStart(job)`: saveOk is
\* whether the write of the audit file succeeded, spawnOk whether the erase
\* script could be spawned (a failed spawn is reported through the 'error'
\* event on the next tick, before any other request is served)
StartAuditDone(jobId, saveOk, spawnOk) ==
  /\ execs[jobId].phase = "auditStart"
  /\ LET job == activeJobs[jobId] IN
     IF ~saveOk
       THEN /\ execs' = [execs EXCEPT ![jobId].phase = "startFailed"]
            /\ lastResponse' = StartResponse(200, FALSE, "audit_write_failed")
            /\ UNCHANGED <<activeJobs, jobHistory, auditLogs, spawns, signals,
                           outputs, cancels, checked, aux>>
     ELSE IF job.deviceType = "android"
       THEN /\ activeJobs' = LaunchAndroid(activeJobs, jobId)
            /\ execs' = [execs EXCEPT ![jobId].phase = "adb"]
            /\ spawns' = spawns \cup {[jobId |-> jobId, driveLetter |-> job.driveLetter,
                                       kind |-> "adb"]}
            /\ lastResponse' = StartResponse(200, TRUE, "none")
            /\ UNCHANGED <<jobHistory, auditLogs, signals, outputs, cancels, checked, aux>>
     ELSE /\ spawns' = spawns \cup {[jobId |-> jobId, driveLetter |-> job.driveLetter,
                                     kind |-> "usb.bat"]}
          /\ lastResponse' = StartResponse(200, TRUE, "none")
          /\ IF spawnOk
               THEN /\ activeJobs' = LaunchUsb(activeJobs, jobId)
                    /\ execs' = [execs EXCEPT ![jobId].phase = "usbRunning"]
                    /\ UNCHANGED auditLogs
               ELSE /\ activeJobs' = UsbErrorHandler(LaunchUsb(activeJobs, jobId),
                                                     jobId)
                    /\ auditLogs' = Append(auditLogs, logEraseComplete(jobId, "failed"))
                    /\ execs' = [execs EXCEPT ![jobId].phase = "usbErrorAudit"]
          /\ UNCHANGED <<jobHistory, signals, outputs, cancels, checked, aux>>

\* `STDOUT: ${output}`
StdoutLog(output) ==
  CASE output = "Erasing drive" -> "STDOUT: Erasing drive"
    [] output = "Wiping free space" -> "STDOUT: Wiping free space"
    [] output = "cipher.exe" -> "STDOUT: cipher.exe"
    [] output = "Erase complete" -> "STDOUT: Erase complete"
    [] OTHER -> "STDOUT: other"

\* the stdout 'data' handler of the erase process
UsbStdout(jobId, output) ==
  /\ execs[jobId].phase = "usbRunning"
  /\ outputs < MaxOutput
  /\ activeJobs' = parseProgressFromOutput(
                     addJobLog(activeJobs, jobId, StdoutLog(output)),
                     jobId, output)
  /\ outputs' = outputs + 1
  /\ UNCHANGED <<jobHistory, auditLogs, execs, spawns, signals, cancels,
                 checked, aux>>
  /\ lastResponse' = NoResponse

\* the stderr 'data' handler of the erase process
UsbStderr(jobId) ==
  /\ execs[jobId].phase = "usbRunning"
  /\ outputs < MaxOutput
  /\ activeJobs' = addJobLog(activeJobs, jobId, "STDERR")
  /\ outputs' = outputs + 1
  /\ UNCHANGED <<jobHistory, auditLogs, execs, spawns, signals, cancels,
                 checked, aux>>
  /\ lastResponse' = NoResponse

\* the 'close' handler of the erase process: its first statement,
\* `const job = this.activeJobs.get(job.id)`, reads the `job` it declares
\* before that is initialized, so the handler throws a ReferenceError there
\* for every exit code; the rejection reaches the process-wide
\* unhandledRejection handler, which logs it. Nothing after it runs.
UsbClose(jobId, code) ==
  /\ execs[jobId].phase = "usbRunning"
  /\ execs' = [execs EXCEPT ![jobId].phase = "usbClosed", ![jobId].exitCode = code]
  /\ UNCHANGED <<activeJobs, jobHistory, auditLogs, spawns, signals, outputs,
                 cancels, checked, aux>>
  /\ lastResponse' = NoResponse

\* the 'error' handler resumes after `await auditLogger.logEraseComplete(...)`:
\* reject(error) runs the catch block of executeEraseProcess, which pushes a
\* second erase_complete entry; a failed write leaves the promise unsettled
UsbErrorAuditDone(jobId, saveOk) ==
  /\ execs[jobId].phase = "usbErrorAudit"
  /\ execs' = [execs EXCEPT ![jobId].phase = "done"]
  /\ IF saveOk
       THEN /\ activeJobs' = ExecuteCatch(activeJobs, jobId)
            /\ auditLogs' = Append(auditLogs, logEraseComplete(jobId, "failed"))
       ELSE UNCHANGED <<activeJobs, auditLogs>>
  /\ UNCHANGED <<jobHistory, spawns, signals, outputs, cancels, checked, aux>>
  /\ lastResponse' = NoResponse

Chunks(hasStdout, hasStderr) ==
  (IF hasStdout THEN 1 ELSE 0) + (IF hasStderr THEN 1 ELSE 0)

\* the exec callback of executeAdbCommands for the command at execs[jobId].index
AdbCallback(jobId, error, hasStdout, hasStderr) ==
  /\ execs[jobId].phase = "adb"
  /\ ~error => outputs + Chunks(hasStdout, hasStderr) <= MaxOutput
  /\ outputs' = IF error THEN outputs ELSE outputs + Chunks(hasStdout, hasStderr)
  /\ LET index == execs[jobId].index
         failedJobs ==
           ExecuteCatch(
             updateJobStatus(addJobLog(activeJobs, jobId, "Command failed"),
                             jobId, "failed", "Android erase failed", NoProgress),
             jobId)
         j1 == IF hasStdout THEN addJobLog(activeJobs, jobId, "Output")
               ELSE activeJobs
         j2 == IF hasStderr THEN addJobLog(j1, jobId, "Warning") ELSE j1
         j3 == updateJobStatus(j2, jobId, "running", "Completed command",
                               AdbProgress(index))
     IN
     IF error
       THEN /\ activeJobs' = failedJobs
            /\ auditLogs' = Append(auditLogs, logEraseComplete(jobId, "failed"))
            /\ execs' = [execs EXCEPT ![jobId].phase = "done"]
     ELSE IF index + 1 >= AdbCommandCount
       THEN /\ activeJobs' = updateJobStatus(j3, jobId, "completed",
                                             "Android device erase completed", 100)
            /\ execs' = [execs EXCEPT ![jobId].phase = "done", ![jobId].index = index + 1]
            /\ UNCHANGED auditLogs
     ELSE /\ activeJobs' = addJobLog(j3, jobId, "Executing: adb")
          /\ execs' = [execs EXCEPT ![jobId].index = index + 1]
          /\ UNCHANGED auditLogs
  /\ UNCHANGED <<jobHistory, spawns, signals, cancels, checked, aux>>
  /\ lastResponse' = NoResponse

CancelResponse(jobId, code, success, error) ==
  [op |-> "cancel", jobId |-> jobId, code |-> code, success |-> success, error |-> error]

cancelEraseJob_noStatusUpdate(jobs, jobId) ==
  IF jobId \notin DOMAIN jobs
    THEN [success |-> FALSE, error |-> "Job not found or already completed",
          jobs |-> jobs, kills |-> {}, audit |-> <<>>]
  ELSE IF jobs[jobId].status \in {"completed", "failed"}
    THEN [success |-> FALSE, error |-> "Job already completed, cannot cancel",
          jobs |-> jobs, kills |-> {}, audit |-> <<>>]
  ELSE [success |-> TRUE, error |-> "none",
        jobs |-> jobs,
        kills |-> IF jobs[jobId].process # "undefined"
                    THEN {[jobId |-> jobId, signal |-> "SIGTERM"]} ELSE {},
        audit |-> <<logEraseComplete(jobId, "cancelled")>>]

\* EraseService.cancelEraseJob: its result, the job map it leaves, the signals
\* it sends and the audit entry its unawaited logEraseComplete pushes
cancelEraseJob(jobs, jobId) ==
  IF jobId \notin DOMAIN jobs
    THEN [success |-> FALSE, error |-> "Job not found or already completed",
          jobs |-> jobs, kills |-> {}, audit |-> <<>>]
  ELSE IF jobs[jobId].status \in {"completed", "failed"}
    THEN [success |-> FALSE, error |-> "Job already completed, cannot cancel",
          jobs |-> jobs, kills |-> {}, audit |-> <<>>]
  ELSE [success |-> TRUE, error |-> "none",
        jobs |-> updateJobStatus(jobs, jobId, "cancelled", "Job cancelled by user",
                                 NoProgress),
        kills |-> IF jobs[jobId].process # "undefined"
                    THEN {[jobId |-> jobId, signal |-> "SIGTERM"]} ELSE {},
        audit |-> <<logEraseComplete(jobId, "cancelled")>>]

\* POST /api/erase/cancel/:jobId; saveOk is whether the writes of audit.json
\* for the two erase_complete entries succeed. When they fail, the route's
\* catch block pushes an error entry: if its write fails too the handler ends
\* without a response, otherwise it answers 500
CancelRoute(jobId, saveOk) ==
  LET result == cancelEraseJob(activeJobs, jobId) IN
  IF ~result.success
    THEN /\ lastResponse' = CancelResponse(jobId, 400, FALSE, result.error)
         /\ UNCHANGED <<activeJobs, jobHistory, auditLogs, execs, spawns, signals,
                        outputs, cancels, checked, aux>>
  ELSE /\ cancels < MaxCancels
       /\ activeJobs' = result.jobs
       /\ signals' = signals \cup result.kills
       /\ cancels' = cancels + 1
       /\ IF saveOk
            THEN /\ auditLogs' = auditLogs \o result.audit
                                   \o <<logEraseComplete(jobId, "cancelled")>>
                 /\ lastResponse' = CancelResponse(jobId, 200, TRUE, "none")
            ELSE /\ auditLogs' = auditLogs \o result.audit
                                   \o <<logEraseComplete(jobId, "cancelled"),
                                        logError("erase_cancel")>>
                 /\ lastResponse' \in
                      {NoResponse,
                       CancelResponse(jobId, 500, FALSE, "Failed to cancel job")}
       /\ UNCHANGED <<jobHistory, execs, spawns, outputs, checked, aux>>

\* -------------------------------------------------------------------- Next
Next ==
  \/ \E body \in Requests, statOk \in BOOLEAN : StartRoute(body, statOk)
  \/ \E jobId \in JobIds, saveOk \in BOOLEAN, spawnOk \in BOOLEAN :
       StartAuditDone(jobId, saveOk, spawnOk)
  \/ \E jobId \in JobIds, output \in OutputLines : UsbStdout(jobId, output)
  \/ \E jobId \in JobIds : UsbStderr(jobId)
  \/ \E jobId \in JobIds, code \in {0, 1} : UsbClose(jobId, code)
  \/ \E jobId \in JobIds, saveOk \in BOOLEAN : UsbErrorAuditDone(jobId, saveOk)
  \/ \E jobId \in JobIds, error \in BOOLEAN, hasStdout \in BOOLEAN, hasStderr \in BOOLEAN :
       AdbCallback(jobId, error, hasStdout, hasStderr)
  \/ \E jobId \in JobIds \cup {UnknownJobId}, saveOk \in BOOLEAN : CancelRoute(jobId, saveOk)

Spec == Init /\ [][Next]_vars

\* the event loop runs every callback that is ready, and requests and Executor
\* events keep arriving while the run's budgets allow
SpecLive == Spec /\ WF_vars(Next)

\* ------------------------------------------- the confirmation check alone
\* the targets and phrases the three confirmation checks are evaluated on
ValidateTargets ==
  {DriveE, Drive_e, DriveC, Drive_c, DriveD, Drive_d, <<"F", ":">>, <<"f", ":">>,
   DriveDigit, <<"E">>, <<"E", "E", ":">>}

PhraseVariants(t) ==
  { Phrase(toUpperCase(t)),
    Phrase(t),
    toUpperCase(t) \o <<" ", "y", "e", "s">>,
    toUpperCase(t) \o <<" ", "Y", "e", "s">>,
    t \o <<" ", "y", "e", "s">>,
    Phrase(toUpperCase(t)) \o <<" ">>,
    <<" ">> \o Phrase(toUpperCase(t)),
    toUpperCase(t) \o <<"Y", "E", "S">>,
    toUpperCase(t) \o <<" ", " ", "Y", "E", "S">>,
    <<"Y", "E", "S">> }

ValidatePhrases == UNION {PhraseVariants(t) : t \in ValidateTargets}

\* the confirmation checks of validateEraseRequest, performSafetyCheck and
\* validateEraseConfirmation applied to one target and one phrase
CheckConfirmation(target, phrase) ==
  /\ checked = NoResponse
  /\ checked' = [op |-> "check", target |-> target, phrase |-> phrase,
                 service |-> validateEraseRequest(Req(Dev, target, phrase, "usb")),
                 safety |-> performSafetyCheck(Req(Dev, target, phrase, "usb"), TRUE),
                 middleware |-> validateEraseConfirmation(phrase, target)]
  /\ UNCHANGED <<activeJobs, jobHistory, auditLogs, execs, spawns, signals, outputs,
                 cancels, lastResponse, aux>>

NextValidate ==
  \E target \in ValidateTargets, phrase \in ValidatePhrases :
    CheckConfirmation(target, phrase)

SpecValidate == Init /\ [][NextValidate]_vars

\* ------------------------------------------------------- the history alone
\* the history's cap and the size it is trimmed to
HistoryCap == 100
HistoryKeep == 50

\* array.slice(0, n)
SliceFirst(list, n) == IF Len(list) <= n THEN list ELSE SubSeq(list, 1, n)

\* the job with its completedAt set
Completed(job, stamp) ==
  [f \in DOMAIN job \cup {"completedAt"} |->
     IF f = "completedAt" THEN stamp ELSE job[f]]

moveJobToHistory_noDelete(jobs, history, jobId, stamp) ==
  IF jobId \notin DOMAIN jobs THEN [jobs |-> jobs, history |-> history]
  ELSE LET unshifted == <<Completed(jobs[jobId], stamp)>> \o history
       IN [jobs |-> jobs,
           history |-> IF Len(unshifted) > HistoryCap
                         THEN SliceFirst(unshifted, HistoryKeep) ELSE unshifted]

moveJobToHistory_sliceLast(jobs, history, jobId, stamp) ==
  IF jobId \notin DOMAIN jobs THEN [jobs |-> jobs, history |-> history]
  ELSE LET unshifted == <<Completed(jobs[jobId], stamp)>> \o history
       IN [jobs |-> [j \in DOMAIN jobs \ {jobId} |-> jobs[j]],
           history |-> IF Len(unshifted) > HistoryCap
                         THEN SliceLast(unshifted, HistoryKeep) ELSE unshifted]

\* EraseService.moveJobToHistory: the job map and the history it leaves
moveJobToHistory(jobs, history, jobId, stamp) ==
  IF jobId \notin DOMAIN jobs THEN [jobs |-> jobs, history |-> history]
  ELSE LET unshifted == <<Completed(jobs[jobId], stamp)>> \o history
       IN [jobs |-> [j \in DOMAIN jobs \ {jobId} |-> jobs[j]],
           history |-> IF Len(unshifted) > HistoryCap
                         THEN SliceFirst(unshifted, HistoryKeep) ELSE unshifted]

\* the ids registered so far in a run of the history alone
HistoryIds == 1..(HistoryPrefill + MaxHistoryJobs)

\* the history n registrations, each followed by its move, leave behind
SequentialHistory(n) ==
  [i \in 1..n |-> Completed(NewJob(n - i + 1, Req(Dev, DriveE, Phrase(DriveE), "usb")),
                            n - i + 1)]

InitHistory ==
  /\ activeJobs = <<>>
  /\ auditLogs = <<>>
  /\ execs = [j \in JobIds |-> NoExec]
  /\ spawns = {}
  /\ signals = {}
  /\ outputs = 0
  /\ cancels = 0
  /\ lastResponse = NoResponse
  /\ checked = NoResponse
  /\ created = 0
  /\ auditFile = [exists |-> FALSE, logs |-> <<>>]
  /\ initialized = TRUE
  /\ calls = <<>>
  /\ originals = <<>>
  /\ tampers = 0
  /\ report = NoResponse
  /\ InitRate
  /\ InitPub
  /\ InitLocal
  /\ \E n \in {0, HistoryPrefill} :
       /\ jobHistory = SequentialHistory(n)
       /\ moved = [i \in 1..n |-> i]

\* startEraseJob's registration of a new job under an id no earlier job has
RegisterJob(request) ==
  LET jobId == Len(moved) + Cardinality(DOMAIN activeJobs) + 1 IN
  /\ created < MaxHistoryJobs
  /\ validateEraseRequest(request).isValid
  /\ activeJobs' = [j \in DOMAIN activeJobs \cup {jobId} |->
                      IF j = jobId THEN NewJob(jobId, request) ELSE activeJobs[j]]
  /\ created' = created + 1
  /\ lastResponse' = NoResponse
  /\ UNCHANGED <<jobHistory, auditLogs, execs, spawns, signals, outputs, cancels,
                 checked, moved, auditOnly, rateOnly, pubOnly, localOnly>>

\* the timer callback `this.moveJobToHistory(job.id)`
MoveJobToHistory(jobId) ==
  LET result == moveJobToHistory(activeJobs, jobHistory, jobId, Len(moved) + 1) IN
  /\ jobId \in DOMAIN activeJobs
  /\ activeJobs' = result.jobs
  /\ jobHistory' = result.history
  /\ moved' = Append(moved, jobId)
  /\ lastResponse' = NoResponse
  /\ UNCHANGED <<auditLogs, execs, spawns, signals, outputs, cancels,
                 checked, created, auditOnly, rateOnly, pubOnly, localOnly>>

\* the job object getJobStatus returns for an active job
ActiveView(job) ==
  [id |-> job.id, deviceId |-> job.deviceId, driveLetter |-> job.driveLetter,
   deviceType |-> job.deviceType, status |-> job.status, progress |-> job.progress,
   statusMessage |-> job.statusMessage, lastUpdate |-> job.lastUpdate,
   logs |-> SliceLast(job.logs, 50)]

\* this.jobHistory.find(h => h.id === jobId): the index of the first match
FindInHistory(history, jobId) ==
  LET matches == {i \in DOMAIN history : history[i].id = jobId}
  IN IF matches = {} THEN 0
     ELSE CHOOSE i \in matches : \A k \in matches : i <= k

getJobStatus_activeOnly(jobs, history, jobId) ==
  IF jobId \in DOMAIN jobs
    THEN [found |-> TRUE, job |-> ActiveView(jobs[jobId])]
  ELSE [found |-> FALSE, error |-> "Job not found"]

\* EraseService.getJobStatus
getJobStatus(jobs, history, jobId) ==
  IF jobId \in DOMAIN jobs
    THEN [found |-> TRUE, job |-> ActiveView(jobs[jobId])]
  ELSE IF FindInHistory(history, jobId) # 0
    THEN [found |-> TRUE, job |-> history[FindInHistory(history, jobId)],
          inHistory |-> TRUE]
  ELSE [found |-> FALSE, error |-> "Job not found"]

\* the answers of GET /status/:jobId
StatusResponse(jobId, result) ==
  IF ~result.found
    THEN [op |-> "status", jobId |-> jobId, code |-> 404, success |-> FALSE,
          error |-> result.error]
  ELSE [op |-> "status", jobId |-> jobId, code |-> 200, success |-> TRUE,
        job |-> result.job, inHistory |-> "inHistory" \in DOMAIN result]

\* GET /status/:jobId
StatusRoute(jobId) ==
  /\ lastResponse' = StatusResponse(jobId, getJobStatus(activeJobs, jobHistory, jobId))
  /\ UNCHANGED <<activeJobs, jobHistory, auditLogs, execs, spawns, signals,
                 outputs, cancels, checked, aux>>

\* the close handler's updateJobStatus call for a job that ended
SettleJob(jobId, status) ==
  /\ jobId \in DOMAIN activeJobs
  /\ activeJobs[jobId].status = "initializing"
  /\ activeJobs' = updateJobStatus(activeJobs, jobId, status, NoMessage, NoProgress)
  /\ lastResponse' = NoResponse
  /\ UNCHANGED <<jobHistory, auditLogs, execs, spawns, signals, outputs, cancels,
                 checked, aux>>

\* the ids the status and cancel routes are asked about: the oldest job of
\* the earlier history, the first job of the run, and an id generateJobId
\* never returned
RouteIds == {1, HistoryPrefill + 1, HistoryPrefill + MaxHistoryJobs + 1}

NextHistory ==
  \/ \E request \in {Req(Dev, DriveE, Phrase(DriveE), "usb")} : RegisterJob(request)
  \/ \E jobId \in HistoryIds : MoveJobToHistory(jobId)
  \/ \E jobId \in HistoryIds, status \in {"completed", "failed"} :
       SettleJob(jobId, status)
  \/ \E jobId \in RouteIds : StatusRoute(jobId)
  \/ \E jobId \in RouteIds : CancelRoute(jobId, TRUE)

SpecHistory == InitHistory /\ [][NextHistory]_vars

\* ------------------------------------------------------ the audit log alone
\* the variables the audit logger never touches
nonAudit == <<activeJobs, jobHistory, execs, spawns, signals, outputs, cancels,
              lastResponse, checked, moved, created, rateOnly, pubOnly,
              localOnly>>

\* the fields the log* functions can pass as undefined
OptionalKeys == {"customer", "deviceId", "driveLetter", "context"}

IsUndefined(data, k) == k \in OptionalKeys /\ data[k] = "undefined"

\* JSON.parse(JSON.stringify(data)): members whose value is undefined are left out
JsonStringify(data) ==
  [k \in {f \in DOMAIN data : ~IsUndefined(data, f)} |-> data[k]]

\* const { checksum, ...dataForChecksum } = log
DataForChecksum(log) == [k \in DOMAIN log \ {"checksum"} |-> log[k]]

\* AuditLogger.generateChecksum: the hash stands for the text it was taken of
generateChecksum(data) == <<"sha256", JsonStringify(data)>>

\* { ...a, ...b }
Spread(a, b) ==
  [k \in DOMAIN a \cup DOMAIN b |-> IF k \in DOMAIN b THEN b[k] ELSE a[k]]

AddedLogEntry_hashAll(id, timestamp, entry) ==
  LET logEntry == Spread([id |-> id, timestamp |-> timestamp, checksum |-> <<>>],
                         entry)
  IN [logEntry EXCEPT !.checksum = generateChecksum(logEntry)]

\* the logEntry addLogEntry builds and pushes
AddedLogEntry(id, timestamp, entry) ==
  LET logEntry == Spread([id |-> id, timestamp |-> timestamp, checksum |-> <<>>],
                         entry)
  IN [logEntry EXCEPT !.checksum = generateChecksum(DataForChecksum(logEntry))]

\* the logs array of the document saveAuditLogs writes, as a load parses it
SavedLogs(logs) == [i \in DOMAIN logs |-> JsonStringify(logs[i])]

\* the entries the log* functions hand to addLogEntry
AuditInputs ==
  { Spread(logEraseStart(NewJob(1, Req(Dev, DriveE, Phrase(DriveE), "usb"))),
           [customer |-> "Unknown"]),
    Spread(logEraseComplete(1, "cancelled"),
           [customer |-> "undefined", deviceId |-> "undefined"]),
    Spread(logError("erase_cancel"), [customer |-> "undefined"]) }

\* an audit.json left by an earlier run of one append
PriorFile ==
  [exists |-> TRUE,
   logs |-> SavedLogs(<<AddedLogEntry(0, 0,
              Spread(logEraseComplete(1, "failed"),
                     [customer |-> "undefined", deviceId |-> "undefined"]))>>)]

InitAudit ==
  /\ activeJobs = <<>>
  /\ jobHistory = <<>>
  /\ auditLogs = <<>>
  /\ execs = [j \in JobIds |-> NoExec]
  /\ spawns = {}
  /\ signals = {}
  /\ outputs = 0
  /\ cancels = 0
  /\ lastResponse = NoResponse
  /\ checked = NoResponse
  /\ moved = <<>>
  /\ created = 0
  /\ auditFile \in {[exists |-> FALSE, logs |-> <<>>],
                    [exists |-> TRUE, logs |-> <<>>],
                    PriorFile}
  /\ initialized = FALSE
  /\ calls = <<>>
  /\ originals = <<>>
  /\ tampers = 0
  /\ report = NoResponse
  /\ InitRate
  /\ InitPub
  /\ InitLocal

\* AuditLogger.initialize as the server's start awaits it, before any route is
\* mounted: loadExistingLogs reads audit.json (readOk) and, when there is none,
\* saveAuditLogs writes the first one (saveOk)
Initialize(readOk, saveOk) ==
  /\ ~initialized
  /\ IF auditFile.exists
       THEN IF readOk
              THEN /\ auditLogs' = auditFile.logs
                   /\ originals' = auditFile.logs
                   /\ initialized' = TRUE
                   /\ report' = NoResponse
                   /\ UNCHANGED auditFile
              ELSE /\ report' = [op |-> "initialize", threw |-> TRUE]
                   /\ UNCHANGED <<auditLogs, originals, initialized, auditFile>>
       ELSE IF saveOk
              THEN /\ auditFile' = [exists |-> TRUE, logs |-> SavedLogs(auditLogs)]
                   /\ initialized' = TRUE
                   /\ report' = NoResponse
                   /\ UNCHANGED <<auditLogs, originals>>
              ELSE /\ report' = [op |-> "initialize", threw |-> TRUE]
                   /\ UNCHANGED <<auditLogs, originals, initialized, auditFile>>
  /\ UNCHANGED <<nonAudit, calls, tampers>>

\* new Date().toISOString() at an append, in milliseconds: later than every
\* timestamp of an earlier run, and the same as or later than the timestamp of
\* the append before it in this run
ClockReadings ==
  LET last == IF originals = <<>> THEN 0
              ELSE originals[Len(originals)].timestamp
  IN IF calls = <<>> THEN {last + 1} ELSE {last, last + 1}

\* addLogEntry up to `await this.saveAuditLogs()`: the entry is pushed and the
\* document to write is serialized
AddLogEntry(entry, timestamp) ==
  LET id == Len(calls) + 1
      logEntry == AddedLogEntry(id, timestamp, entry)
  IN
  /\ initialized
  /\ Len(calls) < MaxAudit
  /\ timestamp \in ClockReadings
  /\ auditLogs' = Append(auditLogs, logEntry)
  /\ originals' = Append(originals, logEntry)
  /\ calls' = Append(calls, [id |-> id, phase |-> "saving", returned |-> {},
                             snapshot |-> SavedLogs(auditLogs')])
  /\ report' = NoResponse
  /\ UNCHANGED <<nonAudit, auditFile, initialized, tampers>>

addLogEntryOutcome_swallow(call, writeOk) ==
  [call EXCEPT !.phase = "returned", !.returned = {call.id}, !.snapshot = <<>>]

\* how addLogEntry ends once fs.writeFile has settled: it returns the id, or
\* the error saveAuditLogs rethrows reaches the caller
addLogEntryOutcome(call, writeOk) ==
  IF writeOk
    THEN [call EXCEPT !.phase = "returned", !.returned = {call.id}, !.snapshot = <<>>]
    ELSE [call EXCEPT !.phase = "threw", !.snapshot = <<>>]

\* fs.writeFile of call c settles; of two writes in flight the one that
\* settles last decides what the file holds
SaveDone(c, writeOk) ==
  /\ calls[c].phase = "saving"
  /\ auditFile' = IF writeOk THEN [exists |-> TRUE, logs |-> calls[c].snapshot]
                  ELSE auditFile
  /\ calls' = [calls EXCEPT ![c] = addLogEntryOutcome(calls[c], writeOk)]
  /\ report' = NoResponse
  /\ UNCHANGED <<nonAudit, auditLogs, initialized, originals, tampers>>

\* the index of the entry filteredLogs.sort puts first: the newest, and among
\* equally new ones the one that came first
NewestIndex(logs) ==
  CHOOSE i \in DOMAIN logs :
    \A k \in DOMAIN logs :
      \/ logs[k].timestamp < logs[i].timestamp
      \/ (logs[k].timestamp = logs[i].timestamp /\ i <= k)

RemoveAt(logs, i) == SubSeq(logs, 1, i - 1) \o SubSeq(logs, i + 1, Len(logs))

RECURSIVE SortNewestFirst(_)
\* logs.sort((a, b) => new Date(b.timestamp) - new Date(a.timestamp))
SortNewestFirst(logs) ==
  IF logs = <<>> THEN <<>>
  ELSE <<logs[NewestIndex(logs)]>>
         \o SortNewestFirst(RemoveAt(logs, NewestIndex(logs)))

\* the action filters a query of the run can carry
QueryFilters == {"any", "erase_complete"}

FilterByAction(logs, action) ==
  IF action = "any" THEN logs
  ELSE SelectSeq(logs, LAMBDA log : log.action = action)

getAuditLogs_sortInPlace(logs, action) ==
  LET filteredLogs == SortNewestFirst(FilterByAction(logs, action))
  IN [logs |-> SliceFirst(filteredLogs, 50),
      totalEntries |-> Len(filteredLogs),
      auditLogs |-> SortNewestFirst(logs)]

\* AuditLogger.getAuditLogs with an action filter, page 1 and the default
\* limit: the page it returns and this.auditLogs as it leaves it
getAuditLogs(logs, action) ==
  LET filteredLogs == SortNewestFirst(FilterByAction(logs, action))
  IN [logs |-> SliceFirst(filteredLogs, 50),
      totalEntries |-> Len(filteredLogs),
      auditLogs |-> logs]

GetAuditLogs(action) ==
  LET result == getAuditLogs(auditLogs, action) IN
  /\ initialized
  /\ auditLogs' = result.auditLogs
  /\ report' = [op |-> "query", logs |-> result.logs,
                totalEntries |-> result.totalEntries]
  /\ UNCHANGED <<nonAudit, auditFile, initialized, calls, originals, tampers>>

\* AuditLogger.exportAuditLogs as a structured document
ExportAuditLogs(action) ==
  LET result == getAuditLogs(auditLogs, action) IN
  /\ initialized
  /\ auditLogs' = result.auditLogs
  /\ report' = [op |-> "export", logs |-> SavedLogs(result.logs),
                totalEntries |-> Len(result.logs)]
  /\ UNCHANGED <<nonAudit, auditFile, initialized, calls, originals, tampers>>

\* the corrupted entries verifyLogIntegrity collects
CorruptedLogs(logs) ==
  LET corrupted ==
        SelectSeq(logs, LAMBDA log :
                    log.checksum # generateChecksum(DataForChecksum(log)))
  IN [i \in DOMAIN corrupted |->
        [id |-> corrupted[i].id,
         timestamp |-> corrupted[i].timestamp,
         expectedChecksum |-> generateChecksum(DataForChecksum(corrupted[i])),
         actualChecksum |-> corrupted[i].checksum]]

verifyLogIntegrity_firstOnly(logs) ==
  LET corruptedLogs == SliceFirst(CorruptedLogs(logs), 1)
  IN [totalLogs |-> Len(logs),
      corruptedLogs |-> Len(corruptedLogs),
      corruptionDetails |-> corruptedLogs,
      isIntegrityValid |-> Len(corruptedLogs) = 0]

\* AuditLogger.verifyLogIntegrity
verifyLogIntegrity(logs) ==
  LET corruptedLogs == CorruptedLogs(logs)
  IN [totalLogs |-> Len(logs),
      corruptedLogs |-> Len(corruptedLogs),
      corruptionDetails |-> corruptedLogs,
      isIntegrityValid |-> Len(corruptedLogs) = 0]

VerifyLogIntegrity ==
  /\ initialized
  /\ report' = [op |-> "verify", result |-> verifyLogIntegrity(auditLogs)]
  /\ UNCHANGED <<nonAudit, auditLogs, auditFile, initialized, calls, originals,
                 tampers>>

\* the fields altered behind the logger's back, and what they are set to
TamperKeys == {"result", "severity", "checksum"}

TamperValue(key) == IF key = "checksum" THEN <<>> ELSE "tampered"

\* something other than the logger alters one field of one stored entry
Tamper(i, key) ==
  /\ tampers < MaxTampers
  /\ i \in DOMAIN auditLogs
  /\ key \in DOMAIN auditLogs[i]
  /\ auditLogs[i][key] # TamperValue(key)
  /\ auditLogs' = [auditLogs EXCEPT ![i][key] = TamperValue(key)]
  /\ tampers' = tampers + 1
  /\ report' = NoResponse
  /\ UNCHANGED <<nonAudit, auditFile, initialized, calls, originals>>

NextAudit ==
  \/ \E readOk \in BOOLEAN, saveOk \in BOOLEAN : Initialize(readOk, saveOk)
  \/ \E entry \in AuditInputs, timestamp \in 0..(MaxAudit + 1) :
       AddLogEntry(entry, timestamp)
  \/ \E c \in 1..MaxAudit, writeOk \in BOOLEAN : c \in DOMAIN calls /\ SaveDone(c, writeOk)
  \/ \E action \in QueryFilters : GetAuditLogs(action)
  \/ \E action \in QueryFilters : ExportAuditLogs(action)
  \/ VerifyLogIntegrity
  \/ \E i \in 1..(MaxAudit + 1), key \in TamperKeys : Tamper(i, key)

SpecAudit == InitAudit /\ [][NextAudit]_vars

\* ------------------------------------------------------- the exports alone
\* the entries the log* functions hand to addLogEntry, with the members the
\* exports treat differently: deviceType is printed by no text line, and
\* duration is null when the job's start entry is not found
ExportInputs ==
  { Spread(logEraseStart(NewJob(1, Req(Dev, DriveE, Phrase(DriveE), "usb"))),
           [customer |-> "Unknown", deviceType |-> "usb"]),
    Spread(logEraseComplete(1, "cancelled"),
           [customer |-> "undefined", deviceId |-> "undefined",
            message |-> "Job cancelled by user", duration |-> "null"]),
    Spread(logError("erase_cancel"),
           [customer |-> "undefined", errorMessage |-> "kill failed"]) }

\* the members that can hold null
NullableKeys == {"duration"}

IsNull(data, k) == k \in NullableKeys /\ data[k] = "null"

\* `value` in `if (value)` and `value || ''`: neither undefined nor null
IsTruthy(data, k) ==
  k \in DOMAIN data /\ ~IsUndefined(data, k) /\ ~IsNull(data, k)

\* this.auditLogs after the entries of inputs were appended one by one
StoreOf(inputs) == [i \in DOMAIN inputs |-> AddedLogEntry(i, i, inputs[i])]

\* the logs an export can find: up to MaxExportLen appends, or ExportPrefill
\* appends of one kind
ExportStores ==
  {StoreOf(inputs) :
     inputs \in UNION {[1..n -> ExportInputs] : n \in 0..MaxExportLen}}
  \cup {StoreOf([i \in 1..ExportPrefill |-> entry]) : entry \in ExportInputs}

\* AuditLogger.convertToCSV: the header row and, per entry, the cell under
\* each header (<<>> for an empty cell, <<value>> for a printed one)
convertToCSV(logs) ==
  LET headers == UNION {DOMAIN logs[i] : i \in DOMAIN logs}
  IN [headers |-> headers,
      rows |-> [i \in DOMAIN logs |->
                  [header \in headers |->
                     IF IsTruthy(logs[i], header) THEN <<logs[i][header]>>
                     ELSE <<>>]]]

\* the members convertToText prints on every entry, and those it prints when
\* they are truthy
TextAlways == {"timestamp", "action", "id", "category", "severity", "checksum"}
TextIfTruthy == {"customer", "jobId", "deviceId", "driveLetter", "result", "message"}

\* log.action.toUpperCase()
ToUpperCase(text) == <<"toUpperCase", text>>

\* AuditLogger.convertToText: per entry, the labelled lines printed for it
convertToText(logs) ==
  [i \in DOMAIN logs |->
     [k \in TextAlways \cup {f \in TextIfTruthy : IsTruthy(logs[i], f)} |->
        IF k = "action" THEN ToUpperCase(logs[i][k]) ELSE logs[i][k]]]

ExportFormats == {"json", "csv", "txt"}

\* AuditLogger.exportAuditLogs(format, {action})
exportAuditLogs(allLogs, format, action) ==
  LET logs == getAuditLogs(allLogs, action).logs
  IN IF format = "csv" THEN convertToCSV(logs)
     ELSE IF format = "txt" THEN convertToText(logs)
     ELSE [totalEntries |-> Len(logs), filters |-> action,
           logs |-> SavedLogs(logs)]

InitExport ==
  /\ activeJobs = <<>>
  /\ jobHistory = <<>>
  /\ auditLogs \in ExportStores
  /\ execs = [j \in JobIds |-> NoExec]
  /\ spawns = {}
  /\ signals = {}
  /\ outputs = 0
  /\ cancels = 0
  /\ lastResponse = NoResponse
  /\ checked = NoResponse
  /\ moved = <<>>
  /\ created = 0
  /\ auditFile = [exists |-> TRUE, logs |-> SavedLogs(auditLogs)]
  /\ initialized = TRUE
  /\ calls = <<>>
  /\ originals = auditLogs
  /\ tampers = 0
  /\ report = NoResponse
  /\ InitRate
  /\ InitPub
  /\ InitLocal

\* one export of the log in one format
Export(format, action) ==
  /\ initialized
  /\ report' = [op |-> "export_as", format |-> format, action |-> action,
                document |-> exportAuditLogs(auditLogs, format, action)]
  /\ UNCHANGED <<nonAudit, auditLogs, auditFile, initialized, calls, originals,
                 tampers>>

NextExport ==
  \E format \in ExportFormats, action \in QueryFilters : Export(format, action)

SpecExport == InitExport /\ [][NextExport]_vars

\* ------------------------------------------------- the WebSocket server alone
\* the variables the WebSocket server never touches, the job map apart
nonPub == <<jobHistory, auditLogs, execs, spawns, signals, outputs, cancels,
            lastResponse, checked, moved, created, auditOnly, rateOnly, localOnly>>

\* the channels a client can name; the erase service publishes on 'erase'
Channels == {"erase", "audit"}

\* channel = null, the default of broadcast's second parameter
NoChannel == "null"

\* the clients for which client.readyState === WebSocket.OPEN and
\* !channel || (client.subscriptions && client.subscriptions.has(channel))
Recipients(cl, channel) ==
  {c \in ClientIds :
     /\ cl[c].readyState = "OPEN"
     /\ (channel = NoChannel \/ channel \in cl[c].subscriptions)}

broadcast_ignoreChannel(cl, box, data, channel) ==
  [c \in ClientIds |->
     IF cl[c].readyState = "OPEN" THEN Append(box[c], data) ELSE box[c]]

broadcast_prepend(cl, box, data, channel) ==
  [c \in ClientIds |->
     IF c \in Recipients(cl, channel) THEN <<data>> \o box[c] ELSE box[c]]

\* BackendServer.broadcast(data, channel): one client.send per client of
\* this.wss.clients that passes the two tests
broadcast(cl, box, data, channel) ==
  [c \in ClientIds |->
     IF c \in Recipients(cl, channel) THEN Append(box[c], data) ELSE box[c]]

\* a message as a client receives it: the number of the broadcast call that
\* sent it (0 for an answer to the client alone) and the data sent
Sent(call, data) == [call |-> call, data |-> data]

\* the wire: the clients, what each was sent, and the broadcast calls made
Wire(cl, box, n) == [clients |-> cl, inbox |-> box, published |-> n]

\* EraseService.addJobLog, the broadcast of the new line included
addJobLogAndBroadcast(jobs, wire, jobId, message) ==
  IF jobId \notin DOMAIN jobs THEN [jobs |-> jobs, wire |-> wire]
  ELSE [jobs |-> addJobLog(jobs, jobId, message),
        wire |-> Wire(wire.clients,
                      broadcast(wire.clients, wire.inbox,
                                Sent(wire.published + 1,
                                     [type |-> "erase_log", jobId |-> jobId,
                                      log |-> message]),
                                "erase"),
                      wire.published + 1)]

\* EraseService.updateJobProgress, the broadcast of the new progress included
updateJobProgressAndBroadcast(jobs, wire, jobId, progress) ==
  IF jobId \notin DOMAIN jobs \/ ~(progress > jobs[jobId].progress)
    THEN [jobs |-> jobs, wire |-> wire]
  ELSE [jobs |-> updateJobProgress(jobs, jobId, progress),
        wire |-> Wire(wire.clients,
                      broadcast(wire.clients, wire.inbox,
                                Sent(wire.published + 1,
                                     [type |-> "erase_progress", jobId |-> jobId,
                                      progress |-> progress]),
                                "erase"),
                      wire.published + 1)]

updateJobStatusAndBroadcast_needsListener(jobs, wire, jobId, status, message, progress) ==
  IF jobId \notin DOMAIN jobs \/ Recipients(wire.clients, "erase") = {}
    THEN [jobs |-> jobs, wire |-> wire]
  ELSE LET logged == IF message # NoMessage
                       THEN addJobLogAndBroadcast(jobs, wire, jobId, message).wire
                       ELSE wire
           updated == updateJobStatus(jobs, jobId, status, message, progress)
       IN [jobs |-> updated,
           wire |-> Wire(logged.clients,
                         broadcast(logged.clients, logged.inbox,
                                   Sent(logged.published + 1,
                                        [type |-> "erase_status_update",
                                         jobId |-> jobId, status |-> status,
                                         progress |-> updated[jobId].progress,
                                         message |-> message]),
                                   "erase"),
                         logged.published + 1)]

\* EraseService.updateJobStatus, its broadcasts included: that of the line
\* addJobLog pushes, then that of the new status
updateJobStatusAndBroadcast(jobs, wire, jobId, status, message, progress) ==
  IF jobId \notin DOMAIN jobs THEN [jobs |-> jobs, wire |-> wire]
  ELSE LET logged == IF message # NoMessage
                       THEN addJobLogAndBroadcast(jobs, wire, jobId, message).wire
                       ELSE wire
           updated == updateJobStatus(jobs, jobId, status, message, progress)
       IN [jobs |-> updated,
           wire |-> Wire(logged.clients,
                         broadcast(logged.clients, logged.inbox,
                                   Sent(logged.published + 1,
                                        [type |-> "erase_status_update",
                                         jobId |-> jobId, status |-> status,
                                         progress |-> updated[jobId].progress,
                                         message |-> message]),
                                   "erase"),
                         logged.published + 1)]

\* one statement of a registry call: an assignment to a member of the job,
\* or a call of broadcast
Set(field) == [kind |-> "set", name |-> field]
Send(type) == [kind |-> "send", name |-> type]

\* EraseService.addJobLog, statement by statement
addJobLogEffects(jobs, jobId) ==
  IF jobId \notin DOMAIN jobs THEN <<>>
  ELSE <<Set("logs"), Send("erase_log")>>

\* EraseService.updateJobProgress, statement by statement
updateJobProgressEffects(jobs, jobId, progress) ==
  IF jobId \notin DOMAIN jobs \/ ~(progress > jobs[jobId].progress) THEN <<>>
  ELSE <<Set("progress"), Set("lastUpdate"), Send("erase_progress")>>

\* EraseService.updateJobStatus, statement by statement
updateJobStatusEffects(jobs, jobId, status, message, progress) ==
  IF jobId \notin DOMAIN jobs THEN <<>>
  ELSE <<Set("status"), Set("lastUpdate")>>
       \o (IF message # NoMessage
             THEN <<Set("statusMessage")>> \o addJobLogEffects(jobs, jobId)
             ELSE <<>>)
       \o (IF progress # NoProgress THEN <<Set("progress")>> ELSE <<>>)
       \o <<Send("erase_status_update")>>

\* the server with one job registered by startEraseJob and nobody connected
InitPublish ==
  /\ activeJobs = <<NewJob(1, Req(Dev, DriveE, Phrase(DriveE), "usb"))>>
  /\ jobHistory = <<>>
  /\ auditLogs = <<>>
  /\ execs = [j \in JobIds |-> NoExec]
  /\ spawns = {}
  /\ signals = {}
  /\ outputs = 0
  /\ cancels = 0
  /\ lastResponse = NoResponse
  /\ checked = NoResponse
  /\ moved = <<>>
  /\ created = 0
  /\ auditFile = [exists |-> FALSE, logs |-> <<>>]
  /\ initialized = TRUE
  /\ calls = <<>>
  /\ originals = <<>>
  /\ tampers = 0
  /\ report = NoResponse
  /\ InitRate
  /\ InitPub
  /\ InitLocal

\* wss.on('connection'): the client joins wss.clients and is sent the welcome
Connect(c) ==
  /\ clients[c].readyState = "NONE"
  /\ clients' = [clients EXCEPT ![c] = [readyState |-> "OPEN", subscriptions |-> {}]]
  /\ inbox' = [inbox EXCEPT ![c] = <<Sent(0, [type |-> "connection"])>>]
  /\ UNCHANGED <<activeJobs, nonPub, published>>

\* the messages a client sends
ClientMessages ==
  {[type |-> "ping", channel |-> NoChannel],
   [type |-> "invalid", channel |-> NoChannel]}
  \cup {[type |-> t, channel |-> ch] : t \in {"subscribe", "unsubscribe"},
                                       ch \in Channels}

\* ws.on('message'): a pong, a change of ws.subscriptions, or the error
\* answer to a message that does not parse
Message(c, data) ==
  /\ clients[c].readyState = "OPEN"
  /\ IF data.type = "ping"
       THEN /\ Len(inbox[c]) < MaxInbox
            /\ inbox' = [inbox EXCEPT ![c] = Append(@, Sent(0, [type |-> "pong"]))]
            /\ UNCHANGED clients
     ELSE IF data.type = "subscribe"
       THEN /\ clients' = [clients EXCEPT ![c].subscriptions = @ \cup {data.channel}]
            /\ UNCHANGED inbox
     ELSE IF data.type = "unsubscribe"
       THEN /\ clients' = [clients EXCEPT ![c].subscriptions = @ \ {data.channel}]
            /\ UNCHANGED inbox
     ELSE /\ Len(inbox[c]) < MaxInbox
          /\ inbox' = [inbox EXCEPT ![c] = Append(@, Sent(0, [type |-> "error"]))]
          /\ UNCHANGED clients
  /\ UNCHANGED <<activeJobs, nonPub, published>>

\* the closing handshake of a client begins: it stays in wss.clients, no
\* longer OPEN
BeginClose(c) ==
  /\ clients[c].readyState = "OPEN"
  /\ clients' = [clients EXCEPT ![c].readyState = "CLOSING"]
  /\ UNCHANGED <<activeJobs, nonPub, inbox, published>>

\* ws.on('close'): the connection is gone and the client leaves wss.clients
Close(c) ==
  /\ clients[c].readyState \in {"OPEN", "CLOSING"}
  /\ clients' = [clients EXCEPT ![c] = [readyState |-> "NONE", subscriptions |-> {}]]
  /\ inbox' = [inbox EXCEPT ![c] = <<>>]
  /\ UNCHANGED <<activeJobs, nonPub, published>>

\* one call of broadcast(data, channel) by any module of the server
Publish(channel) ==
  /\ published < MaxPublished
  /\ inbox' = broadcast(clients, inbox,
                        Sent(published + 1, [type |-> "event", channel |-> channel]),
                        channel)
  /\ published' = published + 1
  /\ UNCHANGED <<activeJobs, nonPub, clients>>

\* the job updates of a run
StatusUpdates ==
  {[status |-> "running", message |-> "Executing erase script", progress |-> 10],
   [status |-> "completed", message |-> NoMessage, progress |-> NoProgress],
   [status |-> "cancelled", message |-> "Job cancelled by user", progress |-> NoProgress]}

\* one call of updateJobStatus for the job
UpdateJobStatus(u) ==
  LET result == updateJobStatusAndBroadcast(activeJobs, Wire(clients, inbox, published),
                                            1, u.status, u.message, u.progress)
  IN
  /\ published < MaxPublished
  /\ activeJobs' = result.jobs
  /\ inbox' = result.wire.inbox
  /\ published' = result.wire.published
  /\ UNCHANGED <<nonPub, clients>>

\* one call of updateJobProgress for the job
UpdateJobProgress(progress) ==
  LET result == updateJobProgressAndBroadcast(activeJobs, Wire(clients, inbox, published),
                                              1, progress)
  IN
  /\ published < MaxPublished
  /\ activeJobs' = result.jobs
  /\ inbox' = result.wire.inbox
  /\ published' = result.wire.published
  /\ UNCHANGED <<nonPub, clients>>

NextPublish ==
  \/ \E c \in ClientIds : Connect(c)
  \/ \E c \in ClientIds, data \in ClientMessages : Message(c, data)
  \/ \E c \in ClientIds : BeginClose(c)
  \/ \E c \in ClientIds : Close(c)
  \/ \E channel \in Channels \cup {NoChannel} : Publish(channel)
  \/ \E u \in StatusUpdates : UpdateJobStatus(u)
  \/ \E progress \in {30} : UpdateJobProgress(progress)

SpecPublish == InitPublish /\ [][NextPublish]_vars

\* -------------------------------------------------- the log buffer alone
\* the logEntry addJobLog builds for the n-th line of the job
LogEntry(n) == [timestamp |-> n, message |-> "STDOUT: other"]

\* one call of addJobLog for the job, from a stdout chunk of its Executor
AppendLog ==
  /\ outputs < MaxLogLines
  /\ activeJobs' = addJobLog(activeJobs, 1, LogEntry(outputs + 1))
  /\ outputs' = outputs + 1
  /\ UNCHANGED <<jobHistory, auditLogs, execs, spawns, signals, cancels,
                 lastResponse, checked, aux>>

NextLog == AppendLog

SpecLog == InitPublish /\ [][NextLog]_vars

\* ---------------------------------------------------- the rate limiter alone
maxAttempts == 3
windowMs == 10 * 60 * 1000

\* Math.ceil(a / b) for b > 0
Ceil(a, b) == IF a % b = 0 THEN a \div b ELSE (a \div b) + 1

\* userAttempts.filter(timestamp => now - timestamp < windowMs)
RecentAttempts(userAttempts, t) ==
  SelectSeq(userAttempts, LAMBDA timestamp : t - timestamp < windowMs)

operationRateLimit_newestExpiry(att, key, t) ==
  LET recentAttempts == RecentAttempts(att[key], t) IN
  IF Len(recentAttempts) >= maxAttempts
    THEN [next |-> FALSE, attempts |-> att,
          retryAfter |-> Ceil(windowMs - (t - recentAttempts[Len(recentAttempts)]),
                              1000)]
    ELSE [next |-> TRUE, attempts |-> [att EXCEPT ![key] = Append(recentAttempts, t)],
          retryAfter |-> 0]

operationRateLimit_admitAtLimit(att, key, t) ==
  LET recentAttempts == RecentAttempts(att[key], t) IN
  IF Len(recentAttempts) > maxAttempts
    THEN [next |-> FALSE, attempts |-> att,
          retryAfter |-> Ceil(windowMs - (t - recentAttempts[1]), 1000)]
    ELSE [next |-> TRUE, attempts |-> [att EXCEPT ![key] = Append(recentAttempts, t)],
          retryAfter |-> 0]

\* operationRateLimit at time t: whether it calls next(), the map it leaves
\* and the retryAfter of its 429 answer
operationRateLimit(att, key, t) ==
  LET recentAttempts == RecentAttempts(att[key], t) IN
  IF Len(recentAttempts) >= maxAttempts
    THEN [next |-> FALSE, attempts |-> att,
          retryAfter |-> Ceil(windowMs - (t - recentAttempts[1]), 1000)]
    ELSE [next |-> TRUE, attempts |-> [att EXCEPT ![key] = Append(recentAttempts, t)],
          retryAfter |-> 0]

RateResponse(key, retryAfter) ==
  [op |-> "rate", key |-> key, code |-> 429, success |-> FALSE,
   error |-> "Too many attempts", retryAfter |-> retryAfter]

\* one request passes through the middleware
RateAttempt(key) ==
  LET result == operationRateLimit(attempts, key, now) IN
  /\ attempts' = result.attempts
  /\ admitted' = IF result.next THEN [admitted EXCEPT ![key] = Append(@, now)]
                 ELSE admitted
  /\ lastResponse' = IF result.next THEN NoResponse
                     ELSE RateResponse(key, result.retryAfter)
  /\ UNCHANGED <<activeJobs, jobHistory, auditLogs, execs, spawns, signals, outputs,
                 cancels, checked, moved, created, auditOnly, pubOnly, localOnly,
                 now, ticks>>

\* the steps by which the clock advances between requests
ClockSteps == {1, windowMs - 2}

\* time passes
Tick(d) ==
  /\ ticks < MaxTicks
  /\ now' = now + d
  /\ ticks' = ticks + 1
  /\ lastResponse' = NoResponse
  /\ UNCHANGED <<activeJobs, jobHistory, auditLogs, execs, spawns, signals, outputs,
                 cancels, checked, moved, created, auditOnly, pubOnly, localOnly,
                 attempts, admitted>>

NextRate ==
  \/ \E key \in RateKeys : RateAttempt(key)
  \/ \E d \in ClockSteps : Tick(d)

SpecRate == Init /\ [][NextRate]_vars

\* ------------------------------------------------------- job creation alone
\* the values Math.random().toString(36).substring(2, 8) takes in a run
Randoms == {"k3f9x2", "0q7zb1"}

\* EraseService.generateJobId when Date.now() is timestamp and Math.random()
\* yields random: `erase_${timestamp}_${random}`
generateJobIdAt(timestamp, random) == <<"erase", timestamp, random>>

\* startEraseJob up to its first await: the request is validated, the id is
\* generated, the job is set in activeJobs and its erase_start entry is pushed
CreateJob(request, random) ==
  LET jobId == generateJobIdAt(now, random)
      job == NewJob(jobId, request)
  IN
  /\ created < MaxCreated
  /\ validateEraseRequest(request).isValid
  /\ activeJobs' = [j \in DOMAIN activeJobs \cup {jobId} |->
                      IF j = jobId THEN job ELSE activeJobs[j]]
  /\ auditLogs' = Append(auditLogs, logEraseStart(job))
  /\ created' = created + 1
  /\ lastResponse' = NoResponse
  /\ UNCHANGED <<jobHistory, execs, spawns, signals, outputs, cancels, checked,
                 moved, auditOnly, rateOnly, pubOnly, localOnly>>

\* the requests of a run of job creation alone
CreateRequests ==
  {Req(Dev, DriveE, Phrase(DriveE), "usb"), Req(Dev, DriveE, Phrase(DriveE), "android")}

NextCreate ==
  \/ \E request \in CreateRequests, random \in Randoms : CreateJob(request, random)
  \/ \E d \in ClockSteps : Tick(d)

SpecCreate == Init /\ [][NextCreate]_vars

\* ------------------------------------------------ the Electron local backend
\* the variables the local backend never touches
nonLocal == <<activeJobs, jobHistory, auditLogs, execs, spawns, signals, outputs,
              cancels, checked, moved, created, auditOnly, rateOnly, pubOnly>>

\* a device object as a request body carries it; id <<>> stands for a missing id
Device(id, status, type, driveLetter) ==
  [id |-> id, status |-> status, type |-> type, driveLetter |-> driveLetter]

\* the devices POSTed to /api/erase in a run
LocalDevices ==
  { Device(<<"E">>, "ready", "removable", <<"E">>),
    Device(<<"C">>, "system", "internal", <<"C">>),
    Device(<<"C">>, "system", "removable", <<"c">>),
    Device(<<"C">>, "ready", "removable", <<"C">>),
    Device(<<"C">>, "ready", "removable", <<"c">>),
    Device(<<"C">>, "ready", "removable", DriveC),
    Device(<<"C">>, "ready", "removable", Drive_c),
    Device(<<"D">>, "ready", "internal", <<"D">>),
    Device(<<>>, "ready", "removable", <<"E">>) }

\* the tokens POSTed to /api/erase in a run: accepted, unknown, too short
LocalTokens == {"demo-123", "prod-123", "demo"}

\* validateToken: tokens of 8 characters or more that start with 'demo-'
validateToken(token) ==
  IF token = "demo" THEN [valid |-> FALSE, reason |-> "Invalid token format"]
  ELSE IF token = "demo-123" THEN [valid |-> TRUE, reason |-> "none"]
  ELSE [valid |-> FALSE, reason |-> "Token not found or expired"]

\* validateDevice
validateDevice(device, os) ==
  IF device.id = <<>> THEN [valid |-> FALSE, reason |-> "Invalid device"]
  ELSE IF device.status = "system" \/ device.driveLetter = <<"C">>
    THEN [valid |-> FALSE, reason |-> "Cannot erase system drive"]
  ELSE IF device.type = "internal" /\ os = "win32"
    THEN [valid |-> FALSE, reason |-> "Internal drives require special handling"]
  ELSE [valid |-> TRUE, reason |-> "none"]

\* the answers of POST /api/erase
LocalResponse(device, code, success, error, reason) ==
  [op |-> "local_erase", device |-> device, code |-> code, success |-> success,
   error |-> error, reason |-> reason]

\* the local backend on one of its platforms, before its first request
InitLocalBackend ==
  /\ activeJobs = <<>>
  /\ jobHistory = <<>>
  /\ auditLogs = <<>>
  /\ execs = [j \in JobIds |-> NoExec]
  /\ spawns = {}
  /\ signals = {}
  /\ outputs = 0
  /\ cancels = 0
  /\ lastResponse = NoResponse
  /\ checked = NoResponse
  /\ moved = <<>>
  /\ created = 0
  /\ auditFile = [exists |-> FALSE, logs |-> <<>>]
  /\ initialized = TRUE
  /\ calls = <<>>
  /\ originals = <<>>
  /\ tampers = 0
  /\ report = NoResponse
  /\ InitRate
  /\ InitPub
  /\ platform \in {"win32", "linux"}
  /\ localJobs = <<>>
  /\ logFiles = <<>>

\* createAuditLog: logs/<jobId>.json is written anew with the status, unless
\* the write fails, which is only printed
createAuditLog(files, jobId, status, writeOk) ==
  IF writeOk
    THEN [j \in DOMAIN files \cup {jobId} |-> IF j = jobId THEN status ELSE files[j]]
  ELSE files

\* POST /api/erase: the token and the device are validated, the start is
\* logged and broadcast, the answer is sent and executeEraser is called; on
\* win32 it runs eraser.exe /drive:<driveLetter> elevated, elsewhere a mock
LocalErase(device, token, writeOk) ==
  LET jobId == Len(localJobs) + 1
      tokenValidation == validateToken(token)
      deviceValidation == validateDevice(device, platform)
  IN
  IF ~tokenValidation.valid
    THEN /\ lastResponse' = LocalResponse(device, 401, FALSE, "Invalid token",
                                          tokenValidation.reason)
         /\ UNCHANGED <<nonLocal, localOnly>>
  ELSE IF ~deviceValidation.valid
    THEN /\ lastResponse' = LocalResponse(device, 400, FALSE, "Invalid device",
                                          deviceValidation.reason)
         /\ UNCHANGED <<nonLocal, localOnly>>
  ELSE /\ Len(localJobs) < MaxLocalJobs
       /\ logFiles' = createAuditLog(logFiles, jobId, "started", writeOk)
       /\ localJobs' = Append(localJobs,
                              [device |-> device, phase |-> "running",
                               command |-> IF platform = "win32" THEN "eraser.exe"
                                           ELSE "mock",
                               sent |-> <<"started">>])
       /\ lastResponse' = LocalResponse(device, 200, TRUE, "none", "none")
       /\ UNCHANGED <<nonLocal, platform>>

\* executeEraser settles: its result is broadcast (by the real eraser only)
\* and logged as 'completed' or 'failed'; the mock never fails
EraserDone(jobId, error, writeOk) ==
  /\ jobId \in DOMAIN localJobs
  /\ localJobs[jobId].phase = "running"
  /\ error => localJobs[jobId].command = "eraser.exe"
  /\ localJobs' =
       [localJobs EXCEPT
          ![jobId].phase = IF error THEN "failed" ELSE "completed",
          ![jobId].sent = IF localJobs[jobId].command = "mock" THEN @
                          ELSE Append(@, IF error THEN "error" ELSE "complete")]
  /\ logFiles' = createAuditLog(logFiles, jobId,
                               IF error THEN "failed" ELSE "completed", writeOk)
  /\ lastResponse' = NoResponse
  /\ UNCHANGED <<nonLocal, platform>>

NextLocal ==
  \/ \E device \in LocalDevices, token \in LocalTokens, writeOk \in BOOLEAN :
       LocalErase(device, token, writeOk)
  \/ \E jobId \in 1..MaxLocalJobs, error \in BOOLEAN, writeOk \in BOOLEAN :
       EraserDone(jobId, error, writeOk)

SpecLocal == InitLocalBackend /\ [][NextLocal]_vars

\* ------------------------------------------------ the safety middleware alone
\* String.prototype.toLowerCase
toLowerChar(c) ==
  IF \E i \in 1..Len(UpperOf) : UpperOf[i] = c
    THEN LowerLetters[CHOOSE i \in 1..Len(UpperOf) : UpperOf[i] = c]
    ELSE c

toLowerCase(s) == [i \in 1..Len(s) |-> toLowerChar(s[i])]

\* String.prototype.startsWith and String.prototype.includes
startsWith(s, prefix) == Len(s) >= Len(prefix) /\ SubSeq(s, 1, Len(prefix)) = prefix

includes(s, part) ==
  \E i \in 1..(Len(s) - Len(part) + 1) : SubSeq(s, i, i + Len(part) - 1) = part

\* PROTECTED_PATHS in lower case, with the defaults of the three that are read
\* from the environment
PROTECTED_PATHS ==
  {<<"c", ":", "\\">>, <<"c", ":">>, <<"/", "s", "y", "s", "t", "e", "m", "/">>, <<"/", "b", "o", "o", "t", "/">>, <<"/", "u", "s", "r", "/">>, <<"/", "v", "a", "r", "/">>, <<"/", "e", "t", "c", "/">>,
   <<"c", ":", "\\", "w", "i", "n", "d", "o", "w", "s">>,
   <<"c", ":", "\\", "p", "r", "o", "g", "r", "a", "m", " ", "f", "i", "l", "e", "s">>,
   <<"c", ":", "\\", "p", "r", "o", "g", "r", "a", "m", "d", "a", "t", "a">>}

\* SYSTEM_DISK_PATTERNS.some(pattern => pattern.test(text))
SYSTEM_DISK_PATTERNS(text) ==
  \/ startsWith(toLowerCase(text), <<"c", ":">>)
  \/ text = <<"/">>
  \/ startsWith(toLowerCase(text), <<"/", "s", "y", "s", "t", "e", "m">>)
  \/ startsWith(toLowerCase(text), <<"/", "b", "o", "o", "t">>)
  \/ includes(toLowerCase(text), <<"w", "i", "n", "d", "o", "w", "s">>)
  \/ includes(toLowerCase(text), <<"s", "y", "s", "t", "e", "m", "3", "2">>)
  \/ includes(toLowerCase(text), <<"p", "r", "o", "g", "r", "a", "m", " ", "f", "i", "l", "e", "s">>)

\* path.normalize on the paths of a run: on win32 a bare drive gets its
\* current directory and every slash becomes a backslash
normalize(devicePath, os) ==
  IF os # "win32" THEN devicePath
  ELSE IF Len(devicePath) = 2 /\ devicePath[2] = ":" THEN devicePath \o <<".">>
  ELSE [i \in 1..Len(devicePath) |->
          IF devicePath[i] = "/" THEN "\\" ELSE devicePath[i]]

\* isSystemDisk(devicePath, deviceInfo)
isSystemDisk(devicePath, deviceInfo, os) ==
  \/ SYSTEM_DISK_PATTERNS(devicePath)
  \/ \E protectedPath \in PROTECTED_PATHS :
       startsWith(toLowerCase(normalize(devicePath, os)), protectedPath)
  \/ deviceInfo.label # <<>>
       /\ includes(toLowerCase(deviceInfo.label), <<"s", "y", "s", "t", "e", "m">>)
  \/ deviceInfo.mountpoint # <<>> /\ SYSTEM_DISK_PATTERNS(deviceInfo.mountpoint)

\* req.body.device when the body has none
NoDevice == [path |-> <<>>, label |-> <<>>, mountpoint |-> <<>>]

\* the devices named in the bodies of a run
GateDevices ==
  {[path |-> t, label |-> l, mountpoint |-> m] :
     t \in {DriveE, Drive_e, DriveC, Drive_c, <<"/">>, <<"/", "d", "e", "v", "/", "s", "d", "b">>},
     l \in {<<>>, <<"S", "y", "s", "t", "e", "m">>, <<"D", "A", "T", "A">>},
     m \in {<<>>, DriveE, DriveC}}
  \cup {NoDevice}

\* req.body.confirmation, undefined when the body has none
Confirmation(body) ==
  IF "confirmation" \in DOMAIN body THEN body.confirmation ELSE <<>>

\* the bodies of a run: each device with no confirmation, an empty one, the
\* exact phrase, the phrase in the letter case of the path, and another
GateBodies ==
  {[device |-> d] : d \in GateDevices}
  \cup UNION {{[device |-> d, confirmation |-> c] :
                 c \in {<<>>, Phrase(toUpperCase(d.path)), Phrase(d.path),
                        <<"Y", "E", "S">>}} : d \in GateDevices}

\* req.route.path
GateRoutes == {<<"/", "e", "r", "a", "s", "e">>, <<"/", "s", "c", "a", "n">>}

\* what the middleware did with the request
GateResult(body, routePath, outcome, error) ==
  [op |-> "gate", body |-> body, routePath |-> routePath, outcome |-> outcome,
   error |-> error]

\* deviceSafetyCheck; formatOk is the outcome of validateDevice. The module
\* takes logAudit from the audit logger, which exports no member of that
\* name: each rejection that is to be audited throws at `await logAudit(...)`,
\* the catch block throws at its own, and the request is left without a
\* response
deviceSafetyCheck(body, routePath, formatOk, os) ==
  LET device == body.device
      confirmation == Confirmation(body)
      devicePath == device.path
  IN
  IF device = NoDevice
    THEN GateResult(body, routePath, "400", "Device information is required")
  ELSE IF ~formatOk
    THEN GateResult(body, routePath, "unanswered", "Invalid device format")
  ELSE IF isSystemDisk(devicePath, device, os)
    THEN GateResult(body, routePath, "unanswered", "System disk access denied")
  ELSE IF /\ includes(routePath, <<"e", "r", "a", "s", "e">>)
          /\ confirmation # <<>>
          /\ ~validateEraseConfirmation(confirmation, devicePath)
    THEN GateResult(body, routePath, "unanswered", "Invalid confirmation")
  ELSE GateResult(body, routePath, "next", "none")

\* one request through the middleware, which keeps nothing from one request
\* to the next
DeviceSafetyCheck(body, routePath, formatOk) ==
  /\ checked = NoResponse
  /\ checked' = deviceSafetyCheck(body, routePath, formatOk, platform)
  /\ UNCHANGED <<activeJobs, jobHistory, auditLogs, execs, spawns, signals, outputs,
                 cancels, lastResponse, aux>>

NextGate ==
  \E body \in GateBodies, routePath \in GateRoutes, formatOk \in BOOLEAN :
    DeviceSafetyCheck(body, routePath, formatOk)

SpecGate == InitLocalBackend /\ [][NextGate]_vars

\* --------------------------------------------------- the paged query alone
Digits == <<"0", "1", "2", "3", "4", "5", "6", "7", "8", "9">>

DigitValue(c) == (CHOOSE i \in 1..10 : Digits[i] = c) - 1

IsDigit(c) == \E i \in 1..10 : Digits[i] = c

RECURSIVE LeadingDigits(_)
\* the digits a text begins with
LeadingDigits(text) ==
  IF text = <<>> \/ ~IsDigit(Head(text)) THEN <<>>
  ELSE <<Head(text)>> \o LeadingDigits(Tail(text))

RECURSIVE DecimalValue(_)
DecimalValue(digits) ==
  IF digits = <<>> THEN 0
  ELSE 10 * DecimalValue(SubSeq(digits, 1, Len(digits) - 1))
         + DigitValue(digits[Len(digits)])

\* parseInt(text) || fallback, for a text without sign or leading blanks: a
\* text that begins with no digit gives NaN, and NaN and 0 give the fallback
parseIntOr(text, fallback) ==
  IF LeadingDigits(text) = <<>> \/ DecimalValue(LeadingDigits(text)) = 0
    THEN fallback
    ELSE DecimalValue(LeadingDigits(text))

\* the text of a page number below ten, as a client puts it in the query
PageText(page) == <<Digits[page + 1]>>

\* log.customer as text, empty when the member is undefined
CustomerText(customer) ==
  IF customer = "Unknown" THEN <<"U", "n", "k", "n", "o", "w", "n">> ELSE <<>>

\* the filter chain of getAuditLogs; an absent filter is "", <<>> or 0
ApplyFilters(logs, filters) ==
  LET byCategory == IF filters.category # ""
                      THEN SelectSeq(logs, LAMBDA log : log.category = filters.category)
                      ELSE logs
      byAction == IF filters.action # ""
                    THEN SelectSeq(byCategory, LAMBDA log : log.action = filters.action)
                    ELSE byCategory
      byCustomer == IF filters.customer # <<>>
                      THEN SelectSeq(byAction, LAMBDA log :
                             /\ CustomerText(log.customer) # <<>>
                             /\ includes(toLowerCase(CustomerText(log.customer)),
                                         toLowerCase(filters.customer)))
                      ELSE byAction
      bySeverity == IF filters.severity # ""
                      THEN SelectSeq(byCustomer, LAMBDA log : log.severity = filters.severity)
                      ELSE byCustomer
      byFrom == IF filters.dateFrom # 0
                  THEN SelectSeq(bySeverity, LAMBDA log : log.timestamp >= filters.dateFrom)
                  ELSE bySeverity
      byTo == IF filters.dateTo # 0
                THEN SelectSeq(byFrom, LAMBDA log : log.timestamp <= filters.dateTo)
                ELSE byFrom
  IN IF filters.jobId # 0
       THEN SelectSeq(byTo, LAMBDA log : log.jobId = filters.jobId)
       ELSE byTo

\* array.slice(start, end) for 0 <= start <= end
Slice(list, start, end) ==
  SubSeq(list, start + 1, IF end < Len(list) THEN end ELSE Len(list))

getAuditLogsPage_lastIndexIncluded(logs, filters, pageText, limitText) ==
  LET filteredLogs == SortNewestFirst(ApplyFilters(logs, filters))
      page == parseIntOr(pageText, 1)
      limit == parseIntOr(limitText, 50)
      startIndex == (page - 1) * limit
      endIndex == startIndex + limit
  IN [logs |-> Slice(filteredLogs, startIndex, endIndex + 1),
      pagination |-> [currentPage |-> page,
                      totalPages |-> Ceil(Len(filteredLogs), limit),
                      totalEntries |-> Len(filteredLogs),
                      hasNext |-> endIndex < Len(filteredLogs),
                      hasPrevious |-> page > 1]]

\* AuditLogger.getAuditLogs with every filter, the page and the limit
getAuditLogsPage(logs, filters, pageText, limitText) ==
  LET filteredLogs == SortNewestFirst(ApplyFilters(logs, filters))
      page == parseIntOr(pageText, 1)
      limit == parseIntOr(limitText, 50)
      startIndex == (page - 1) * limit
      endIndex == startIndex + limit
  IN [logs |-> Slice(filteredLogs, startIndex, endIndex),
      pagination |-> [currentPage |-> page,
                      totalPages |-> Ceil(Len(filteredLogs), limit),
                      totalEntries |-> Len(filteredLogs),
                      hasNext |-> endIndex < Len(filteredLogs),
                      hasPrevious |-> page > 1]]

\* the filters of the queries of a run
PageFilters ==
  [category : {"", "system"}, action : {"", "erase_complete"},
   customer : {<<>>, <<"U", "N", "K">>}, severity : {"", "error"},
   dateFrom : {0, 2}, dateTo : {0, 2}, jobId : {0, 1}]

\* the limits of the queries of a run: none, 1, 2, and texts parseInt reads
\* as 0, as NaN and as 2
PageLimits == {<<>>, <<"1">>, <<"2">>, <<"0">>, <<"a">>, <<"2", "x">>}

\* the log a query finds: up to MaxQueryLen appends
InitQuery ==
  /\ activeJobs = <<>>
  /\ jobHistory = <<>>
  /\ auditLogs \in {StoreOf(inputs) :
                      inputs \in UNION {[1..n -> ExportInputs] : n \in 0..MaxQueryLen}}
  /\ execs = [j \in JobIds |-> NoExec]
  /\ spawns = {}
  /\ signals = {}
  /\ outputs = 0
  /\ cancels = 0
  /\ lastResponse = NoResponse
  /\ checked = NoResponse
  /\ moved = <<>>
  /\ created = 0
  /\ auditFile = [exists |-> TRUE, logs |-> SavedLogs(auditLogs)]
  /\ initialized = TRUE
  /\ calls = <<>>
  /\ originals = auditLogs
  /\ tampers = 0
  /\ report = NoResponse
  /\ InitRate
  /\ InitPub
  /\ InitLocal

\* a client reads page 1 and then every further page up to the totalPages
\* page 1 announced, with the same filters and limit
ReadPages(filters, limitText) ==
  LET first == getAuditLogsPage(auditLogs, filters, PageText(1), limitText)
  IN
  /\ initialized
  /\ report = NoResponse
  /\ report' = [op |-> "pages", filters |-> filters, limit |-> limitText,
                pages |-> [page \in 1..first.pagination.totalPages |->
                             getAuditLogsPage(auditLogs, filters, PageText(page),
                                              limitText)]]
  /\ UNCHANGED <<nonAudit, auditLogs, auditFile, initialized, calls, originals,
                 tampers>>

NextQuery ==
  \E filters \in PageFilters, limitText \in PageLimits : ReadPages(filters, limitText)

SpecQuery == InitQuery /\ [][NextQuery]_vars

\* =================================================================== claims

\* the protected drive letters and the confirmation suffix, as the
\* specification words them
ProtectedLetters == {"C", "D", "c", "d"}
IsProtectedTarget(t) == Len(t) = 2 /\ t[1] \in ProtectedLetters /\ t[2] = ":"

\* p is exactly the upper-cased target followed by " YES"
IsExactPhrase(p, t) ==
  /\ Len(p) = Len(t) + 4
  /\ \A i \in 1..Len(t) : p[i] = toUpperChar(t[i])
  /\ p[Len(t) + 1] = " "
  /\ p[Len(t) + 2] = "Y"
  /\ p[Len(t) + 3] = "E"
  /\ p[Len(t) + 4] = "S"

\* C1: no job for a protected drive (C: or D:, any letter case) is ever in the
\* active set or the history, and the Executor is never started for one,
\* whatever confirmation phrase the request carried.
C1_ProtectedNeverAdmitted ==
  /\ \A j \in DOMAIN activeJobs : ~IsProtectedTarget(activeJobs[j].driveLetter)
  /\ \A i \in DOMAIN jobHistory : ~IsProtectedTarget(jobHistory[i].driveLetter)
  /\ \A s \in spawns : ~IsProtectedTarget(s.driveLetter)

\* a create request for a protected drive that exists, carrying the exactly
\* correct phrase, has just been rejected
C1_Witness ==
  /\ lastResponse = SafetyResponse(
       [allPassed |-> FALSE,
        checks |-> [drive_exists |-> TRUE, system_drive_protection |-> FALSE,
                    confirmation_format |-> TRUE]])
  /\ C1_ProtectedNeverAdmitted

ClaimRejects(body) ==
  \/ body.deviceId = <<>> \/ body.driveLetter = <<>> \/ body.confirmation = <<>>
  \/ ~(Len(body.driveLetter) = 2 /\ toUpperChar(body.driveLetter[1]) \in UpperLetters
       /\ body.driveLetter[2] = ":")
  \/ IsProtectedTarget(body.driveLetter)
  \/ ~IsExactPhrase(body.confirmation, body.driveLetter)

\* C3: a create request with missing fields, a malformed target, a protected
\* target or a wrong phrase leaves the active set, the history, every job and
\* the Executor launches as they were: no step that changes one of them is
\* the handling of such a request.
C3_RejectedCreateChangesNothing ==
  [][\/ UNCHANGED <<activeJobs, jobHistory, execs, spawns>>
     \/ \A body \in Requests, statOk \in BOOLEAN :
          ~(ClaimRejects(body) /\ StartRoute(body, statOk))]_vars

\* a malformed target has just been rejected while a job is in the active set
C3_Witness ==
  /\ lastResponse = StartResponse(200, FALSE, "drive_format")
  /\ DOMAIN activeJobs # {}

\* C4 (as claimed): a create request rejected for a protected target or a
\* wrong phrase appends exactly one audit entry, at the highest severity for a
\* protected target, and creates no job.
C4_RejectionAudited ==
  [][\A body \in Requests, statOk \in BOOLEAN :
       (/\ StartRoute(body, statOk)
        /\ body.deviceId # <<>> /\ body.driveLetter # <<>> /\ body.confirmation # <<>>
        /\ \/ IsProtectedTarget(body.driveLetter)
           \/ ~IsExactPhrase(body.confirmation, body.driveLetter)) =>
         /\ Len(auditLogs') = Len(auditLogs) + 1
         /\ IsProtectedTarget(body.driveLetter) =>
              auditLogs'[Len(auditLogs')].severity = "CRITICAL"
         /\ UNCHANGED activeJobs]_vars

\* C5 (as claimed): cancel on a job that is Completed, Failed or Cancelled
\* answers with a failure and changes neither the job nor the audit log.
C5_CancelTerminalIsConflict ==
  [][\A jobId \in JobIds, saveOk \in BOOLEAN :
       (/\ jobId \in DOMAIN activeJobs
        /\ activeJobs[jobId].status \in TerminalStatuses
        /\ CancelRoute(jobId, saveOk)) =>
         /\ lastResponse' # NoResponse
         /\ ~lastResponse'.success
         /\ UNCHANGED <<activeJobs, auditLogs>>]_vars

\* C6 (as claimed): once a job is Completed, Failed or Cancelled its status
\* never changes again.
C6_TerminalStatusImmutable ==
  [][\A jobId \in DOMAIN activeJobs :
       (activeJobs[jobId].status \in TerminalStatuses /\ jobId \in DOMAIN activeJobs') =>
         activeJobs'[jobId].status = activeJobs[jobId].status]_vars

\* C7: a cancel request on a Running job leaves the job Cancelled as soon as
\* the request has been handled, without any event from the Executor.
C7_CancelRunningGivesCancelled ==
  [][\A jobId \in JobIds, saveOk \in BOOLEAN :
       (/\ jobId \in DOMAIN activeJobs
        /\ activeJobs[jobId].status = "running"
        /\ CancelRoute(jobId, saveOk)) =>
         /\ activeJobs'[jobId].status = "cancelled"
         /\ execs' = execs]_vars

\* the first cancel of the run has just been accepted for a job whose
\* Executor is still running and has not reacted
C7_Witness ==
  \E jobId \in DOMAIN activeJobs :
    /\ lastResponse = CancelResponse(jobId, 200, TRUE, "none")
    /\ cancels = 1
    /\ execs[jobId].phase \in {"usbRunning", "adb"}
    /\ activeJobs[jobId].status = "cancelled"

\* C8 (as claimed): a job cancelled while its Executor runs has had a stop
\* signal sent to that Executor.
C8_CancelSignalsExecutor ==
  \A jobId \in DOMAIN activeJobs :
    (activeJobs[jobId].status = "cancelled"
       /\ execs[jobId].phase \in {"usbRunning", "adb"}) =>
      \E s \in signals : s.jobId = jobId

\* C9 (as claimed): once the erase process of a job has closed and its close
\* handler has run, the job is Completed with progress 100 for exit code 0 and
\* Failed for any other exit code.
C9_ExitDecidesStatus ==
  \A jobId \in DOMAIN activeJobs :
    execs[jobId].phase = "usbClosed" =>
      IF execs[jobId].exitCode = 0
        THEN activeJobs[jobId].status = "completed" /\ activeJobs[jobId].progress = 100
        ELSE activeJobs[jobId].status = "failed"

\* C10: a job's progress stays within 0..100 and never decreases.
C10_ProgressMonotonic ==
  /\ [](\A jobId \in DOMAIN activeJobs :
          activeJobs[jobId].progress >= 0 /\ activeJobs[jobId].progress <= 100)
  /\ [][\A jobId \in DOMAIN activeJobs :
          jobId \in DOMAIN activeJobs' =>
            activeJobs'[jobId].progress >= activeJobs[jobId].progress]_vars

\* a job at 95 whose log shows the 30 milestone arriving after the 95 one
C10_Witness ==
  \E jobId \in DOMAIN activeJobs :
    /\ activeJobs[jobId].progress = 95
    /\ \E i, k \in DOMAIN activeJobs[jobId].logs :
         /\ i < k
         /\ activeJobs[jobId].logs[i] = "STDOUT: Erase complete"
         /\ activeJobs[jobId].logs[k] = "STDOUT: Erasing drive"

\* C11: no job id is at once in the active set and in the history.
C11_ActiveHistoryDisjoint ==
  /\ \A i \in DOMAIN jobHistory : jobHistory[i].id \notin DOMAIN activeJobs
  /\ \A j \in DOMAIN activeJobs : activeJobs[j].id = j

\* a job has been moved to the history during the run while another job,
\* registered before the move, is still active
C11_Witness ==
  /\ DOMAIN activeJobs # {}
  /\ Len(moved) > 0
  /\ \E j \in DOMAIN activeJobs : j < moved[Len(moved)]
  /\ jobHistory[1].id = moved[Len(moved)]

\* C13 (as claimed): the history never holds more than 100 jobs and the
\* newest entries up to the cap are retained: of the jobs moved so far, the
\* newest 100 (all of them while fewer have been moved) are in the history.
C13_NewestUpToCapRetained ==
  /\ Len(jobHistory) <= HistoryCap
  /\ \A k \in 1..HistoryCap :
       k <= Len(moved) =>
         /\ k <= Len(jobHistory)
         /\ jobHistory[k].id = moved[Len(moved) - k + 1]

\* C13 (amended): the history never holds more than 100 jobs; it holds, newest
\* first, the jobs moved last, so every job it dropped entered before every
\* job it retains, and the newest 50 (all of them while fewer have been
\* moved) are always retained.
C13_HistoryTrimmedToNewest ==
  /\ Len(jobHistory) <= HistoryCap
  /\ Len(jobHistory) <= Len(moved)
  /\ \A k \in DOMAIN jobHistory : jobHistory[k].id = moved[Len(moved) - k + 1]
  /\ Len(moved) >= HistoryKeep => Len(jobHistory) >= HistoryKeep
  /\ Len(moved) < HistoryKeep => Len(jobHistory) = Len(moved)

\* the move that made the history exceed its cap has just trimmed it
C13_Witness ==
  /\ Len(moved) = HistoryCap + 1
  /\ Len(jobHistory) = HistoryKeep
  /\ jobHistory[1].id = moved[Len(moved)]

\* C12 (as claimed): every job that has reached a terminal status is
\* eventually out of the active set and in the history.
C12_TerminalMovesToHistory ==
  \A jobId \in JobIds :
    (jobId \in DOMAIN activeJobs /\ activeJobs[jobId].status \in TerminalStatuses)
      ~> (/\ jobId \notin DOMAIN activeJobs
          /\ \E i \in DOMAIN jobHistory : jobHistory[i].id = jobId)

\* C14 (as claimed): every job in a terminal status has a job-started audit
\* entry and an audit entry recording its terminal outcome, both carrying
\* its job id.
C14_TerminalJobAudited ==
  \A jobId \in DOMAIN activeJobs :
    activeJobs[jobId].status \in TerminalStatuses =>
      /\ \E i \in DOMAIN auditLogs :
           auditLogs[i].action = "erase_start" /\ auditLogs[i].jobId = jobId
      /\ \E k \in DOMAIN auditLogs :
           auditLogs[k].action = "erase_complete" /\ auditLogs[k].jobId = jobId

\* C15: as long as nothing has altered a stored entry, every entry in
\* memory and in audit.json carries the checksum recomputed from its other
\* fields, and verifyLogIntegrity finds no mismatch.
C15_ChecksumsReproduce ==
  tampers = 0 =>
    /\ \A i \in DOMAIN auditLogs :
         auditLogs[i].checksum = <<"sha256", JsonStringify(DataForChecksum(auditLogs[i]))>>
    /\ \A i \in DOMAIN auditFile.logs :
         auditFile.logs[i].checksum
           = <<"sha256", JsonStringify(DataForChecksum(auditFile.logs[i]))>>
    /\ verifyLogIntegrity(auditLogs).isIntegrityValid

\* an entry loaded from an earlier run and two appended ones, one of them
\* with undefined fields, have just been verified untampered
C15_Witness ==
  /\ tampers = 0
  /\ Len(auditLogs) = 3
  /\ auditLogs[1].id = 0
  /\ \E i \in DOMAIN auditLogs :
       "customer" \in DOMAIN auditLogs[i] /\ auditLogs[i].customer = "undefined"
  /\ report = [op |-> "verify", result |-> verifyLogIntegrity(auditLogs)]
  /\ report.result.isIntegrityValid

\* the entries of the log that differ from what was first stored
AlteredEntries == {i \in DOMAIN auditLogs : auditLogs[i] # originals[i]}

\* C16: the report of verifyLogIntegrity lists, in log order, exactly the
\* entries whose stored checksum differs from the recomputed one, each with
\* its id and both checksums; every altered entry is among them, however
\* many there are.
C16_VerifyReportsAll ==
  (report # NoResponse /\ report.op = "verify") =>
    LET details == report.result.corruptionDetails
        mismatched == {i \in DOMAIN auditLogs :
                         auditLogs[i].checksum
                           # generateChecksum(DataForChecksum(auditLogs[i]))}
    IN /\ Len(details) = Cardinality(mismatched)
       /\ report.result.corruptedLogs = Cardinality(mismatched)
       /\ report.result.isIntegrityValid = (mismatched = {})
       /\ report.result.totalLogs = Len(auditLogs)
       /\ \A i \in AlteredEntries : i \in mismatched
       /\ \A i \in mismatched :
            \E d \in DOMAIN details :
              /\ details[d].id = auditLogs[i].id
              /\ details[d].expectedChecksum
                   = generateChecksum(DataForChecksum(auditLogs[i]))
              /\ details[d].actualChecksum = auditLogs[i].checksum
       /\ \A d, e \in DOMAIN details :
            d < e => \E i, k \in mismatched :
                       /\ i < k
                       /\ auditLogs[i].id = details[d].id
                       /\ auditLogs[k].id = details[e].id

\* two altered entries, a third untouched, and a report that names both
C16_Witness ==
  /\ report # NoResponse
  /\ report.op = "verify"
  /\ Cardinality(AlteredEntries) = 2
  /\ Len(auditLogs) = 3
  /\ Len(report.result.corruptionDetails) = 2

\* s is an initial part of t
IsPrefix(s, t) == Len(s) <= Len(t) /\ \A i \in DOMAIN s : t[i] = s[i]

OrdinaryFailures ==
  {"missing_fields", "drive_format", "system_drive", "confirmation",
   "Safety check failed", "Job not found or already completed",
   "Job already completed, cannot cancel", "Failed to cancel job",
   "Failed to start erase operation"}

\* C19 (as claimed): when the audit entry of a job's start or cancellation
\* cannot be written, the request that caused the transition is answered,
\* not with success and not with one of the ordinary failures.
C19_AuditFailureReported ==
  [][/\ \A jobId \in JobIds, spawnOk \in BOOLEAN :
          StartAuditDone(jobId, FALSE, spawnOk) =>
            /\ lastResponse' # NoResponse
            /\ ~lastResponse'.success
            /\ lastResponse'.error \notin OrdinaryFailures
     /\ \A jobId \in JobIds :
          (CancelRoute(jobId, FALSE) /\ cancels' # cancels) =>
            /\ lastResponse' # NoResponse
            /\ ~lastResponse'.success
            /\ lastResponse'.error \notin OrdinaryFailures]_vars

\* the attempts of a key the rate limiter let pass inside the window ending at t
AdmittedInWindow(key, t) ==
  {i \in DOMAIN admitted[key] :
     admitted[key][i] <= t /\ t - admitted[key][i] < 10 * 60 * 1000}

\* C20: for every key, the window ending now and the window ending at each
\* admitted attempt hold at most 3 admitted attempts, and an attempt made
\* while 3 admitted attempts lie inside the window is answered 429 and not
\* admitted.
C20_AtMostThreePerWindow ==
  /\ [](\A key \in RateKeys :
          /\ Cardinality(AdmittedInWindow(key, now)) <= 3
          /\ \A i \in DOMAIN admitted[key] :
               Cardinality(AdmittedInWindow(key, admitted[key][i])) <= 3)
  /\ [][\A key \in RateKeys :
          (RateAttempt(key) /\ Cardinality(AdmittedInWindow(key, now)) >= 3) =>
            /\ admitted' = admitted
            /\ lastResponse' # NoResponse
            /\ lastResponse'.code = 429]_vars

\* a fourth attempt has just been rejected for a key whose earlier window,
\* with three admitted attempts, had already expired
C20_Witness ==
  \E key \in RateKeys :
    /\ lastResponse # NoResponse
    /\ lastResponse.op = "rate"
    /\ lastResponse.key = key
    /\ Len(admitted[key]) = 6
    /\ Cardinality(AdmittedInWindow(key, now)) = 3

\* the admitted attempts of a key that have not yet left the window ending now
UnexpiredAdmitted(key) ==
  {admitted[key][i] : i \in AdmittedInWindow(key, now)}

\* the smallest member of a non-empty set of times
Oldest(S) == CHOOSE t \in S : \A u \in S : t <= u

AppendOrder(log) == log.id

\* C22: a query returns the matching entries newest first: of any two entries
\* on the page it returns, the one appended later comes before the one
\* appended earlier.
C22_QueryNewestFirst ==
  (report # NoResponse /\ report.op = "query") =>
    \A i, j \in DOMAIN report.logs :
      i < j => AppendOrder(report.logs[i]) > AppendOrder(report.logs[j])

\* the members of a stored entry that hold a value
FieldsOf(log) == {k \in DOMAIN log : ~IsUndefined(log, k)}

\* a CSV row holds the entry: every member has its column, with the value in
\* the cell (an empty cell where the value is null)
RowHolds(document, i, log) ==
  \A k \in FieldsOf(log) :
    /\ k \in document.headers
    /\ document.rows[i][k] = IF IsNull(log, k) THEN <<>> ELSE <<log[k]>>

\* a text block holds the entry: every member is printed on one of its lines
BlockHolds(block, log) ==
  \A k \in FieldsOf(log) :
    /\ k \in DOMAIN block
    /\ block[k] = IF k = "action" THEN ToUpperCase(log[k]) ELSE log[k]

\* C23: an export contains every entry that matches the filter, however many
\* match, and every member of each such entry, in each of the three formats.
C23_ExportHoldsEveryMatch ==
  (report # NoResponse /\ report.op = "export_as") =>
    LET matching == FilterByAction(auditLogs, report.action)
        document == report.document
    IN \A m \in DOMAIN matching :
         IF report.format = "csv"
           THEN \E i \in DOMAIN document.rows : RowHolds(document, i, matching[m])
         ELSE IF report.format = "txt"
           THEN \E i \in DOMAIN document : BlockHolds(document[i], matching[m])
         ELSE \E i \in DOMAIN document.logs :
                document.logs[i] = JsonStringify(matching[m])

\* the number of messages of one broadcast call among those a client was sent
Copies(box, call) == Cardinality({i \in DOMAIN box : box[i].call = call})

\* C24: a broadcast is delivered, once, to each connected client whose
\* subscriptions contain the channel, to every connected client when no
\* channel is given, and to nobody else; what a client was sent before stays
\* as it was.
C24_PublishReachesSubscribers ==
  [][\A channel \in Channels \cup {NoChannel} :
       Publish(channel) =>
         \A c \in ClientIds :
           /\ Copies(inbox'[c], published') =
                IF /\ clients[c].readyState = "OPEN"
                   /\ (channel = NoChannel \/ channel \in clients[c].subscriptions)
                  THEN 1 ELSE 0
           /\ SubSeq(inbox'[c], 1, Len(inbox[c])) = inbox[c]
           /\ Len(inbox'[c]) <= Len(inbox[c]) + 1]_vars

\* an event on 'erase' has just reached the client subscribed to 'erase' and
\* not the connected client subscribed to 'audit' only
C24_Witness ==
  \E c, d \in ClientIds :
    /\ clients[c].readyState = "OPEN"
    /\ clients[d].readyState = "OPEN"
    /\ clients[c].subscriptions = {"erase"}
    /\ clients[d].subscriptions = {"audit"}
    /\ published > 0
    /\ Copies(inbox[c], published) = 1
    /\ Copies(inbox[d], published) = 0
    /\ inbox[c][Len(inbox[c])].data = [type |-> "event", channel |-> "erase"]

\* the wire with nobody connected
Unobserved ==
  Wire([c \in ClientIds |-> [readyState |-> "NONE", subscriptions |-> {}]],
       [c \in ClientIds |-> <<>>], 0)

IdsIn(history) == {history[i].id : i \in DOMAIN history}

\* the ids of the jobs the service holds, active or in the history
Known(jobs, history) == DOMAIN jobs \cup IdsIn(history)

\* C26: a status request answers with the active job when the id is active,
\* else with the history's job, else with not-found; a created job is in the
\* active set from its creation on and leaves the active set and the history
\* together only when the cap evicts it from a full history, so every
\* created, unevicted job is found.
C26_StatusFindsEveryJob ==
  [][/\ \A jobId \in RouteIds :
          StatusRoute(jobId) =>
            IF jobId \in DOMAIN activeJobs
              THEN /\ lastResponse'.success
                   /\ ~lastResponse'.inHistory
                   /\ lastResponse'.job.id = jobId
                   /\ lastResponse'.job.status = activeJobs[jobId].status
                   /\ lastResponse'.job.progress = activeJobs[jobId].progress
            ELSE IF jobId \in IdsIn(jobHistory)
              THEN /\ lastResponse'.success
                   /\ lastResponse'.inHistory
                   /\ \E i \in DOMAIN jobHistory :
                        jobHistory[i].id = jobId /\ lastResponse'.job = jobHistory[i]
            ELSE /\ ~lastResponse'.success
                 /\ lastResponse'.code = 404
     /\ LET lost == Known(activeJobs, jobHistory) \ Known(activeJobs', jobHistory')
        IN lost # {} =>
             /\ lost \cap DOMAIN activeJobs = {}
             /\ Len(jobHistory) >= 100
     /\ created' # created =>
          \E jobId \in DOMAIN activeJobs' :
            jobId \notin Known(activeJobs, jobHistory)
              /\ jobId \notin {moved[i] : i \in DOMAIN moved}]_vars

\* a status request has just found, in the history, the first job of the run
\* after the cap evicted older jobs
C26_Witness ==
  /\ lastResponse # NoResponse
  /\ lastResponse.op = "status"
  /\ lastResponse.jobId = HistoryPrefill + 1
  /\ lastResponse.success
  /\ lastResponse.inHistory
  /\ Len(moved) > Len(jobHistory)

\* the answer of the cancel route for an id the service does not know
NotFoundError == "Job not found or already completed"

\* C27: cancelling an id that was never created is answered not-found;
\* cancelling a job that reached a terminal status, still active or already
\* in the history, is answered with a different, conflict result; neither
\* changes any state.
C27_CancelNotFoundVsConflict ==
  [][\A jobId \in RouteIds :
       CancelRoute(jobId, TRUE) =>
         LET everCreated == jobId \in Known(activeJobs, jobHistory)
                              \/ jobId \in {moved[i] : i \in DOMAIN moved}
             terminal == \/ /\ jobId \in DOMAIN activeJobs
                            /\ activeJobs[jobId].status \in TerminalStatuses
                         \/ jobId \in IdsIn(jobHistory)
             nothingChanges == /\ activeJobs' = activeJobs
                               /\ jobHistory' = jobHistory
                               /\ auditLogs' = auditLogs
                               /\ signals' = signals
         IN /\ ~everCreated =>
                 /\ nothingChanges
                 /\ ~lastResponse'.success
                 /\ lastResponse'.error = NotFoundError
            /\ terminal =>
                 /\ nothingChanges
                 /\ ~lastResponse'.success
                 /\ lastResponse'.error # NotFoundError]_vars

\* C28: every created job gets an id no other job has had, and no creation
\* replaces a job of the active set.
C28_JobIdsDistinct ==
  [][created' = created + 1 =>
       /\ DOMAIN activeJobs' # DOMAIN activeJobs
       /\ \A jobId \in DOMAIN activeJobs : activeJobs'[jobId] = activeJobs[jobId]]_vars

\* the drive letter denotes C: in either letter case, with or without a colon
DenotesSystemDrive(driveLetter) ==
  /\ Len(driveLetter) \in {1, 2}
  /\ toUpperChar(driveLetter[1]) = "C"
  /\ Len(driveLetter) = 2 => driveLetter[2] = ":"

IsSystemDevice(device) ==
  DenotesSystemDrive(device.driveLetter) \/ device.status = "system"

\* C29: in the local backend a request to erase a device whose drive letter
\* denotes C or whose status is 'system' is rejected, and the eraser is never
\* run for such a device.
C29_SystemDriveNeverErased ==
  /\ \A jobId \in DOMAIN localJobs :
       localJobs[jobId].command = "eraser.exe" =>
         ~IsSystemDevice(localJobs[jobId].device)
  /\ (lastResponse # NoResponse /\ lastResponse.op = "local_erase"
        /\ IsSystemDevice(lastResponse.device)) =>
       (~lastResponse.success /\ lastResponse.code \in {400, 401})

\* the number of stored entries that carry the id of an append
Occurrences(logs, id) == Cardinality({i \in DOMAIN logs : logs[i].id = id})

\* C30: once every append that was made has returned, the log in memory and
\* the log in audit.json each hold every appended entry exactly once.
C30_ConcurrentAppendsKept ==
  (calls # <<>> /\ \A c \in DOMAIN calls : calls[c].phase = "returned") =>
    \A c \in DOMAIN calls :
      /\ Occurrences(auditLogs, calls[c].id) = 1
      /\ Occurrences(auditFile.logs, calls[c].id) = 1

\* C31: a successful create places the job in the active set in Initializing
\* with its erase_start entry pushed and no Executor launched yet; an
\* Executor is launched only for a job whose erase_start entry is in the log;
\* and the success answer is sent in the step that launches the Executor,
\* while that Executor has not finished.
C31_CreateReturnsAtOnce ==
  /\ [][\A jobId \in JobIds :
          (jobId \notin DOMAIN activeJobs /\ jobId \in DOMAIN activeJobs') =>
            /\ activeJobs'[jobId].status = "initializing"
            /\ \E i \in DOMAIN auditLogs' :
                 auditLogs'[i] = logEraseStart(activeJobs'[jobId])
            /\ ~\E s \in spawns' : s.jobId = jobId]_vars
  /\ [](\A s \in spawns :
          \E i \in DOMAIN auditLogs :
            auditLogs[i].action = "erase_start" /\ auditLogs[i].jobId = s.jobId)
  /\ [][lastResponse' = StartResponse(200, TRUE, "none") =>
          \E jobId \in JobIds :
            /\ execs[jobId].phase = "auditStart"
            /\ execs'[jobId].phase \in {"usbRunning", "adb", "usbErrorAudit"}
            /\ \E s \in spawns' \ spawns : s.jobId = jobId]_vars

\* create has just answered success for a job whose erase script was launched
\* and has produced no output and no exit yet
C31_Witness ==
  /\ lastResponse = StartResponse(200, TRUE, "none")
  /\ outputs = 0
  /\ \E jobId \in DOMAIN activeJobs :
       /\ execs[jobId].phase = "usbRunning"
       /\ \E s \in spawns : s.jobId = jobId
       /\ \E i \in DOMAIN auditLogs :
            auditLogs[i].action = "erase_start" /\ auditLogs[i].jobId = jobId

\* what a step appended to the messages a client was sent
NewMessages(c) == SubSeq(inbox'[c], Len(inbox[c]) + 1, Len(inbox'[c]))

\* the broadcast calls among the statements of a registry call, in order
Sends(effects) == SelectSeq(effects, LAMBDA e : e.kind = "send")

\* the types of a sequence of messages, and of a sequence of broadcast calls
TypesSent(messages) == [i \in DOMAIN messages |-> messages[i].data.type]
TypesOf(sends) == [i \in DOMAIN sends |-> sends[i].name]

\* the members of the job an event reports
Reports(type) ==
  CASE type = "erase_log" -> {"logs"}
    [] type = "erase_progress" -> {"progress", "lastUpdate"}
    [] OTHER -> {"status", "lastUpdate", "statusMessage", "progress"}

\* the place, among the statements of a call, of the last assignment to a
\* member the event reports
LastChange(effects, type) ==
  LET made == {i \in DOMAIN effects :
                 effects[i].kind = "set" /\ effects[i].name \in Reports(type)}
  IN CHOOSE i \in made : \A k \in made : k <= i

\* C32 (as claimed): the events of a status update reach each subscriber in
\* the order in which the update made the state changes they report.
C32_EventsInChangeOrder ==
  [][\A u \in StatusUpdates :
       UpdateJobStatus(u) =>
         LET effects == updateJobStatusEffects(activeJobs, 1, u.status, u.message,
                                               u.progress)
         IN \A c \in Recipients(clients, "erase") :
              \A i, k \in DOMAIN NewMessages(c) :
                i < k => LastChange(effects, NewMessages(c)[i].data.type)
                           < LastChange(effects, NewMessages(c)[k].data.type)]_vars

\* C32 (amended): each subscriber receives the events of a job in the order
\* of the broadcast calls that sent them, and every registry call delivers
\* its events, in the order of its broadcast statements, before the next
\* call delivers any.
C32_DeliveredInEmissionOrder ==
  /\ [](\A c \in ClientIds :
          \A i, k \in DOMAIN inbox[c] :
            (i < k /\ inbox[c][i].call # 0 /\ inbox[c][k].call # 0) =>
              inbox[c][i].call < inbox[c][k].call)
  /\ [][/\ \A u \in StatusUpdates :
            UpdateJobStatus(u) =>
              \A c \in Recipients(clients, "erase") :
                TypesSent(NewMessages(c)) =
                  TypesOf(Sends(updateJobStatusEffects(activeJobs, 1, u.status,
                                                       u.message, u.progress)))
       /\ \A progress \in {30} :
            UpdateJobProgress(progress) =>
              \A c \in Recipients(clients, "erase") :
                TypesSent(NewMessages(c)) =
                  TypesOf(Sends(updateJobProgressEffects(activeJobs, 1, progress)))]_vars

\* a subscriber of 'erase' that received the progress of the job was then
\* sent the line of the cancellation and, after it, the cancelled status
C32_Witness ==
  \E c \in ClientIds :
    /\ clients[c].readyState = "OPEN"
    /\ "erase" \in clients[c].subscriptions
    /\ activeJobs[1].status = "cancelled"
    /\ \E i \in DOMAIN inbox[c] :
         /\ i + 2 \in DOMAIN inbox[c]
         /\ inbox[c][i].data.type = "erase_progress"
         /\ inbox[c][i + 1].data.type = "erase_log"
         /\ inbox[c][i + 2].data.type = "erase_status_update"
         /\ inbox[c][i + 2].data.status = "cancelled"
         /\ inbox[c][i].call < inbox[c][i + 1].call
         /\ inbox[c][i + 1].call < inbox[c][i + 2].call

\* C33 (as claimed): when the Executor of a job exits with a nonzero code or
\* one of its commands fails, that step leaves the job Failed with an
\* erase_complete entry recording the failure appended to the audit log, and
\* leaves every other job as it was.
C33_FailureMarksOnlyThatJob ==
  [][\A jobId \in JobIds :
       (\/ UsbClose(jobId, 1)
        \/ \E hasStdout \in BOOLEAN, hasStderr \in BOOLEAN :
             AdbCallback(jobId, TRUE, hasStdout, hasStderr)) =>
         /\ jobId \in DOMAIN activeJobs'
         /\ activeJobs'[jobId].status = "failed"
         /\ \E i \in DOMAIN auditLogs' :
              /\ i > Len(auditLogs)
              /\ auditLogs'[i] = logEraseComplete(jobId, "failed")
         /\ \A other \in DOMAIN activeJobs \ {jobId} :
              other \in DOMAIN activeJobs' /\ activeJobs'[other] = activeJobs[other]]_vars

\* C34: the log buffer of a job never holds more than 1000 lines; an append
\* that makes it 1001 lines long leaves the 500 most recent lines in their
\* order, any other append leaves the lines held with the new one at the
\* end; so the buffer always holds the most recent lines, oldest first.
C34_LogBufferBounded ==
  /\ [](\A jobId \in DOMAIN activeJobs : Len(activeJobs[jobId].logs) <= 1000)
  /\ [][AppendLog =>
          LET pushed == Append(activeJobs[1].logs, LogEntry(outputs + 1))
          IN activeJobs'[1].logs =
               IF Len(pushed) > 1000
                 THEN [i \in 1..500 |-> pushed[Len(pushed) - 500 + i]]
                 ELSE pushed]_vars
  /\ [](\A i \in DOMAIN activeJobs[1].logs :
          activeJobs[1].logs[i].timestamp = outputs - Len(activeJobs[1].logs) + i)

\* the 1001st line has just been appended: the buffer holds lines 502..1001
C34_Witness ==
  /\ outputs = 1001
  /\ Len(activeJobs[1].logs) = 500
  /\ activeJobs[1].logs[1] = LogEntry(502)
  /\ activeJobs[1].logs[500] = LogEntry(1001)

\* C35 (as claimed): the middleware calls next for a request on an erase
\* route only if the confirmation in its body is exactly the upper-cased
\* device path followed by " YES"; a body with no confirmation, or an empty
\* one, is not let through.
C35_GateNeedsExactPhrase ==
  (/\ checked # NoResponse
   /\ checked.op = "gate"
   /\ checked.outcome = "next"
   /\ includes(checked.routePath, <<"e", "r", "a", "s", "e">>)) =>
    IsExactPhrase(Confirmation(checked.body), checked.body.device.path)

\* C36 (as claimed): no Executor is launched for a job that was cancelled
\* while create was still waiting for the write of its erase_start entry.
C36_CancelledBeforeLaunchStaysUnlaunched ==
  [][\A jobId \in JobIds :
       (/\ jobId \in DOMAIN activeJobs
        /\ activeJobs[jobId].status = "cancelled"
        /\ execs[jobId].phase = "auditStart") =>
         ~\E s \in spawns' \ spawns : s.jobId = jobId]_vars

\* the places of the erase_complete entries of a job in the audit log
CompletionEntries(jobId) ==
  {i \in DOMAIN auditLogs :
     auditLogs[i].action = "erase_complete" /\ auditLogs[i].jobId = jobId}

\* the result an erase_complete entry records for a job left in a status
ResultFor(status) ==
  CASE status = "completed" -> "success"
    [] status = "failed" -> "failed"
    [] status = "cancelled" -> "cancelled"
    [] OTHER -> "none"

\* C37 (as claimed): the audit log holds at most one erase_complete entry
\* for a job, and the result that entry records is the one of the status the
\* job is in.
C37_OneCompletionEntry ==
  \A jobId \in JobIds :
    /\ Cardinality(CompletionEntries(jobId)) <= 1
    /\ \A i \in CompletionEntries(jobId) :
         jobId \in DOMAIN activeJobs =>
           auditLogs[i].result = ResultFor(activeJobs[jobId].status)

\* an entry passes every filter the query supplies
Matches(log, filters) ==
  /\ filters.category # "" => log.category = filters.category
  /\ filters.action # "" => log.action = filters.action
  /\ filters.severity # "" => log.severity = filters.severity
  /\ filters.jobId # 0 => log.jobId = filters.jobId
  /\ filters.dateFrom # 0 => log.timestamp >= filters.dateFrom
  /\ filters.dateTo # 0 => log.timestamp <= filters.dateTo
  /\ filters.customer # <<>> =>
       /\ log.customer = "Unknown"
       /\ filters.customer \in {<<"U", "N", "K">>}

\* the places (page, row) at which the pages read hold an entry
PlacesOf(pages, log) ==
  {place \in UNION {{<<page, row>> : row \in DOMAIN pages[page].logs} :
                      page \in DOMAIN pages} :
     pages[place[1]].logs[place[2]] = log}

\* C38: with the filters and the page size fixed (a limit of at least 1, or
\* the default of 50) and the log unchanged, pages 1..totalPages hold every
\* entry that passes all the filters exactly once and no other entry, and on
\* every page totalPages and totalEntries are the number of pages and of
\* matching entries, hasNext tells whether a later page exists and
\* hasPrevious whether an earlier one does.
C38_PagesPartition ==
  (report # NoResponse /\ report.op = "pages") =>
    LET pages == report.pages
        matching == {i \in DOMAIN auditLogs : Matches(auditLogs[i], report.filters)}
    IN /\ \A i \in DOMAIN auditLogs :
            Cardinality(PlacesOf(pages, auditLogs[i])) =
              IF i \in matching THEN 1 ELSE 0
       /\ \A page \in DOMAIN pages :
            /\ pages[page].logs # <<>>
            /\ pages[page].pagination.currentPage = page
            /\ pages[page].pagination.totalPages = Len(pages)
            /\ pages[page].pagination.totalEntries = Cardinality(matching)
            /\ pages[page].pagination.hasNext = (page < Len(pages))
            /\ pages[page].pagination.hasPrevious = (page > 1)
       /\ (matching # {}) => pages # <<>>

\* three entries, two of them erase_complete: read one per page, the two
\* came on two pages, the second of which is the last
C38_Witness ==
  /\ report # NoResponse
  /\ report.op = "pages"
  /\ Len(auditLogs) = 3
  /\ report.filters.action = "erase_complete"
  /\ report.limit = <<"1">>
  /\ Len(report.pages) = 2
  /\ report.pages[1].pagination.hasNext
  /\ ~report.pages[2].pagination.hasNext
  /\ report.pages[1].logs # report.pages[2].logs

\* C39 (as claimed): the entry of an append that failed is not in the log:
\* neither in memory, where queries, exports and the integrity check read
\* it, nor in audit.json, whatever appends succeeded after it.
C39_FailedAppendLeavesNoTrace ==
  \A c \in DOMAIN calls :
    calls[c].phase = "threw" =>
      /\ Occurrences(auditLogs, calls[c].id) = 0
      /\ Occurrences(auditFile.logs, calls[c].id) = 0
      /\ (report # NoResponse /\ report.op \in {"query", "export"}) =>
           Occurrences(report.logs, calls[c].id) = 0

====
